---- MODULE Spec2Model ----
(***************************************************************************)
(* State-machine model of the AuxTel dome CSC (lsst.ts.ATDome.ATDomeCsc): *)
(* the command handlers do_*, run_command, the status loop, connect and    *)
(* disconnect, as cooperative asyncio tasks that interleave only at their  *)
(* await points.                                                           *)
(*                                                                         *)
(* Angles are integers in units of 0.0001 deg; opening percentages are     *)
(* integers; a move code is an integer in 0..255 whose bits are MoveCode.  *)
(***************************************************************************)
EXTENDS Integers, Sequences, FiniteSets, TLC

\* ------------------------------------------------------------- bounds
\* number of command callbacks that may be in progress at the same time
MaxCmds == 2
\* number of connect()/disconnect() coroutines started by
\* report_summary_state that may be in progress at the same time
MaxAux == 2
\* number of status_loop tasks that may exist at the same time
MaxLoops == 2
\* number of status_loop tasks that may run at the same time in Spec
MaxRunning == 1
\* number of command callbacks started in one behaviour
MaxStarted == 2
\* number of status requests of the status loops in one behaviour
MaxPolls == 2
\* number of state transition commands in one behaviour
MaxTransitions == 3
\* number of command callbacks, status requests and state transition
\* commands together in one behaviour
MaxEvents == 5
\* number of status replies handled in one behaviour of StatusSpec
MaxHandled == 1
\* status requests of one status_loop on its own
MaxCycles == 11
\* status requests of the status loops in one behaviour of LoopSpec
MaxLoopPolls == 3

\* ------------------------------------------------------ program constants
\* MoveCode bits
AzPositive == 1
AzNegative == 2
MainDoorClosing == 4
MainDoorOpening == 8
DropoutDoorClosing == 16
DropoutDoorOpening == 32
Homing == 64
EStop == 128
\* number of short status between full status
short_per_full == 5
\* tolerance for "in position": 0.2 deg
az_tolerance == 2000
\* azimuth range limit of do_moveAzimuth: 360 deg
AzMax == 3600000
\* opening percentage of a fully open door
FullyOpen == 100
\* expected reply lines of "?" and of "+"
ShortLines == 5
FullLines == 25
\* error codes
ConnectErrorCode == 1
ReadErrorCode == 2

\* ---------------------------------------------------------- input sets
\* azimuths a caller may command (0.0001 deg): below range, both limits,
\* a value that the wire format rounds, above range
Azimuths == {0 - 10, 0, 3599996, AzMax, AzMax + 10}
\* opening percentages the controller may report
Pcts == {0, 55, FullyOpen}
\* line counts of a reply (excluding the final ">" line)
LineCounts == {0, ShortLines - 1, ShortLines, FullLines}
\* The decoded first five lines of a status reply (status.ShortStatus) the
\* controller may send: every pair of opening percentages with the doors
\* halted, both doors closing, both doors opening, and homing.
Statuses ==
    [az_pos : {0}, main_door_pct : Pcts, dropout_door_pct : Pcts, move_code : {0}]
    \cup [az_pos : {0}, main_door_pct : {55}, dropout_door_pct : {55},
          move_code : {MainDoorClosing + DropoutDoorClosing,
                       MainDoorOpening + DropoutDoorOpening}]
    \cup [az_pos : {0}, main_door_pct : {0}, dropout_door_pct : {0},
          move_code : {AzNegative + Homing}]

\* every move code without the EStop bit
MoveCodes == 0 .. (EStop - 1)
\* opening percentages of StatusSpec: both ends, next to both ends, between
StatusPcts == {0, 1, 55, FullyOpen - 1, FullyOpen}
\* reported azimuths (0.0001 deg) around the tolerance, on both sides of 0
StatusAzimuths == {0, az_tolerance - 1, az_tolerance, AzMax - az_tolerance + 1}
\* the decoded status replies of StatusSpec
AllStatuses ==
    [az_pos : StatusAzimuths, main_door_pct : StatusPcts,
     dropout_door_pct : StatusPcts, move_code : MoveCodes]
\* the values a command handler gives commandedState of the azimuth and of
\* a door, and the azimuths do_moveAzimuth accepts
AzimuthCommandedStates ==
    [commandedState : {"Unknown", "Home", "Stop"}, azimuth : {<<>>}]
    \cup [commandedState : {"GoToPosition"},
          azimuth : {<<a>> : a \in {x \in Azimuths : 0 <= x /\ x <= AzMax}}]
ShutterDoorCommandedStates ==
    [commandedState : {"Unknown", "Opened", "Closed", "Stop"}]

\* ------------------------------------------------------------- values
None == "None"
\* None where a task is expected
NoTask == <<"None", 0>>
NaN == <<>>
Deg(a) == <<a>>
\* how the read of a reply ended: not yet, with a number of lines (the
\* final ">" line excluded), or with an exception
NoRead == [raised |-> FALSE, lines |-> 0 - 1]
Lines(n) == [raised |-> FALSE, lines |-> n]
ReadRaised == [raised |-> TRUE, lines |-> 0 - 1]
\* no status reply has been decoded
NoStatus == <<>>
\* the reader of a connection whose welcome message has not been read yet,
\* and once it has been read and dropped
WelcomeUnread == "StreamReader, welcome message unread"
StreamReader == "StreamReader"

\* the asyncio tasks: command callbacks, status loops, and the connect() and
\* disconnect() coroutines that report_summary_state starts
CmdIds == {<<"cmd", i>> : i \in 1..MaxCmds}
AuxIds == {<<"aux", i>> : i \in 1..MaxAux}
LoopIds == {<<"loop", i>> : i \in 1..MaxLoops}
TaskIds == CmdIds \cup AuxIds \cup LoopIds

\* ------------------------------------------------------ pure functions
\* move_code & flag != 0, for a single-bit flag
HasBit(move_code, flag) == (move_code \div flag) % 2 = 1

\* f"{azimuth:0.3f}": the azimuth rounded to 0.001 deg (in units of 0.001 deg)
Format3f(azimuth) ==
    IF azimuth >= 0 THEN (azimuth + 5) \div 10 ELSE 0 - ((5 - azimuth) \div 10)

\* the wire command of do_moveAzimuth: f"{azimuth:0.3f} MV"
MoveAzCmd(azimuth) == <<"MV", Format3f(azimuth)>>

\* a range check that also refuses the limits 0 and 360 deg
AzOutOfRange_exclusive(azimuth) == azimuth <= 0 \/ azimuth >= AzMax

\* the range check of do_moveAzimuth: TRUE iff the azimuth is refused
AzOutOfRange(azimuth) == azimuth < 0 \/ azimuth > AzMax

\* a line count table that expects the short reply for "+" as well
expected_lines_short(cmd) ==
    IF cmd \in {<<"?">>, <<"+">>} THEN ShortLines ELSE 0

\* expected_lines of run_command
expected_lines(cmd) ==
    IF cmd = <<"?">> THEN ShortLines ELSE IF cmd = <<"+">> THEN FullLines ELSE 0

\* utils.angle_diff: angle1 - angle2 wrapped into [-180, 180] deg
angle_diff(angle1, angle2) ==
    LET d == (angle1 - angle2) % AzMax
    IN IF d > AzMax \div 2 THEN d - AzMax ELSE d

Abs(x) == IF x < 0 THEN 0 - x ELSE x

\* an azimuth state that tests AzNegative first
compute_az_state_ccwFirst(move_code) ==
    IF HasBit(move_code, AzNegative) THEN "MovingCCW"
    ELSE IF HasBit(move_code, AzPositive) THEN "MovingCW"
    ELSE "NotInMotion"

compute_az_state(move_code) ==
    IF HasBit(move_code, AzPositive) THEN "MovingCW"
    ELSE IF HasBit(move_code, AzNegative) THEN "MovingCCW"
    ELSE "NotInMotion"

\* a door state that reads the flags of the other door
compute_door_state_otherDoor(open_pct, is_main, move_code) ==
    LET closing_code == IF is_main THEN DropoutDoorClosing ELSE MainDoorClosing
        opening_code == IF is_main THEN DropoutDoorOpening ELSE MainDoorOpening
    IN IF ~HasBit(move_code, closing_code) /\ ~HasBit(move_code, opening_code)
       THEN IF open_pct = 0 THEN "Closed"
            ELSE IF open_pct = FullyOpen THEN "Opened"
            ELSE "PartiallyOpened"
       ELSE IF HasBit(move_code, closing_code) THEN "Closing"
       ELSE "Opening"

\* a door state that cannot be resolved when both flags of the door are set
compute_door_state_exclusive(open_pct, is_main, move_code) ==
    LET closing_code == IF is_main THEN MainDoorClosing ELSE DropoutDoorClosing
        opening_code == IF is_main THEN MainDoorOpening ELSE DropoutDoorOpening
    IN IF ~HasBit(move_code, closing_code) /\ ~HasBit(move_code, opening_code)
       THEN IF open_pct = 0 THEN "Closed"
            ELSE IF open_pct = FullyOpen THEN "Opened"
            ELSE "PartiallyOpened"
       ELSE IF HasBit(move_code, closing_code) /\ HasBit(move_code, opening_code)
       THEN "RuntimeError"
       ELSE IF HasBit(move_code, closing_code) THEN "Closing"
       ELSE "Opening"

\* "RuntimeError" stands for the raise at the end of compute_door_state
compute_door_state(open_pct, is_main, move_code) ==
    LET closing_code == IF is_main THEN MainDoorClosing ELSE DropoutDoorClosing
        opening_code == IF is_main THEN MainDoorOpening ELSE DropoutDoorOpening
    IN IF ~HasBit(move_code, closing_code) /\ ~HasBit(move_code, opening_code)
       THEN IF open_pct = 0 THEN "Closed"
            ELSE IF open_pct = FullyOpen THEN "Opened"
            ELSE "PartiallyOpened"
       ELSE IF HasBit(move_code, closing_code) THEN "Closing"
       ELSE IF HasBit(move_code, opening_code) THEN "Opening"
       ELSE "RuntimeError"

\* a door that is in position while it moves
DoorInPosition_moving(halted, commandedState, pct) ==
    \/ commandedState = "Opened" /\ pct = FullyOpen
    \/ commandedState = "Closed" /\ pct = 0

\* a door that is in position at either end unless it is commanded the
\* other end
DoorInPosition_anyEnd(halted, commandedState, pct) ==
    /\ halted
    /\ \/ commandedState # "Closed" /\ pct = FullyOpen
       \/ commandedState # "Opened" /\ pct = 0

\* one door of compute_in_position_mask
DoorInPosition(halted, commandedState, pct) ==
    /\ halted
    /\ \/ commandedState = "Opened" /\ pct = FullyOpen
       \/ commandedState = "Closed" /\ pct = 0

\* compute_in_position_mask: the set of axes that are in position
compute_in_position_mask(move_code, position, azCmd, dropoutCmd, mainCmd) ==
    LET az_halted == ~HasBit(move_code, AzPositive) /\ ~HasBit(move_code, AzNegative)
        dropout_halted == /\ ~HasBit(move_code, DropoutDoorClosing)
                          /\ ~HasBit(move_code, DropoutDoorOpening)
        main_halted == /\ ~HasBit(move_code, MainDoorClosing)
                       /\ ~HasBit(move_code, MainDoorOpening)
        az == IF /\ az_halted
                 /\ azCmd.commandedState = "GoToPosition"
                 /\ Abs(angle_diff(position.azimuthPosition, azCmd.azimuth[1])) < az_tolerance
              THEN {"Az"} ELSE {}
        dropout == IF DoorInPosition(dropout_halted, dropoutCmd.commandedState,
                                     position.dropoutDoorOpeningPercentage)
                   THEN {"DropoutDoor"} ELSE {}
        main == IF DoorInPosition(main_halted, mainCmd.commandedState,
                                  position.mainDoorOpeningPercentage)
                THEN {"MainDoor"} ELSE {}
    IN az \cup dropout \cup main

\* -------------------------------------------------------------- state
VARIABLES
    summary_state,                  \* salobj.State of the CSC
    config,                         \* None until configure() has run
    reader, writer,                 \* the streams, or None
    connect_task,                   \* None, or the open_connection coroutine
    status_task,                    \* NoTask, or the id of the last status_loop task
    status_sleep_task,              \* what status_loop stores after its sleep
    n_short_status,
    cmd_lock,                       \* asyncio.Lock: holder first, then the waiters
    evt_azimuthCommandedState,
    evt_dropoutDoorCommandedState,
    evt_mainDoorCommandedState,
    short_status,                   \* the last decoded status reply, if any
    tel_position,
    evt_azimuthState,
    evt_dropoutDoorState,
    evt_mainDoorState,
    evt_azimuthInPosition,
    evt_shutterInPosition,
    evt_allAxesInPosition,
    evt_errorCode,
    task,                           \* the asyncio tasks, by id
    written,                        \* commands written to the stream, not yet answered
    ack,                            \* the last command acknowledgement
    started, polls, transitions     \* what has happened so far, for the bounds

connVars == <<reader, writer, connect_task, status_task>>
commandedVars == <<evt_azimuthCommandedState, evt_dropoutDoorCommandedState,
                   evt_mainDoorCommandedState>>
statusVars == <<short_status, tel_position, evt_azimuthState, evt_dropoutDoorState,
                evt_mainDoorState, evt_azimuthInPosition, evt_shutterInPosition,
                evt_allAxesInPosition>>
faultVars == <<summary_state, evt_errorCode>>
boundVars == <<started, polls, transitions>>
vars == <<summary_state, config, reader, writer, connect_task, status_task,
          status_sleep_task, n_short_status, cmd_lock,
          evt_azimuthCommandedState, evt_dropoutDoorCommandedState,
          evt_mainDoorCommandedState, short_status, tel_position,
          evt_azimuthState, evt_dropoutDoorState, evt_mainDoorState, evt_azimuthInPosition,
          evt_shutterInPosition, evt_allAxesInPosition, evt_errorCode,
          task, written, ack, started, polls, transitions>>

\* A task that is not running.  pc is the await the task is suspended at;
\* kind is the coroutine it runs; seq numbers the command callbacks in the
\* order they start; azimuth and open are the command's data; cmd is the
\* argument of its run_command call and sent the number of times it was
\* written; rd is how the read of its exchange ended; await is the status_loop task a
\* disconnect() waits for; over holds, for each command callback that was
\* in progress when this one started, its seq, its command and how it has
\* ended since; was_connected tells, while the task waits inside
\* disconnect(), whether the CSC was connected when it called it; ahead
\* counts, while a command callback waits for the lock, the status
\* requests that were in their exchange when it began to wait or were
\* written since; lost tells of a status_loop that the read of a reply, its
\* own or that of a command, has raised since it started.
IdleTask == [pc |-> "idle", kind |-> None, seq |-> 0, azimuth |-> 0,
             open |-> FALSE, cmd |-> <<>>, sent |-> 0, rd |-> NoRead,
             await |-> NoTask, over |-> {}, was_connected |-> TRUE,
             ahead |-> 0, lost |-> FALSE]

\* no command has been acknowledged
NoAck == [seq |-> 0, kind |-> None, azimuth |-> 0, open |-> FALSE,
          cmd |-> <<>>, sent |-> 0, result |-> None, rd |-> NoRead]

\* the state after __init__ and start(): topic data is zero-initialised
\* ("Unset" is the enum value 0 that no state has), the commanded states
\* are Unknown, nothing is connected
Init ==
    /\ summary_state = "STANDBY"
    /\ config = None
    /\ reader = None
    /\ writer = None
    /\ connect_task = None
    /\ status_task = NoTask
    /\ status_sleep_task = NoTask
    /\ n_short_status = 0
    /\ cmd_lock = <<>>
    /\ evt_azimuthCommandedState = [commandedState |-> "Unknown", azimuth |-> NaN]
    /\ evt_dropoutDoorCommandedState = [commandedState |-> "Unknown"]
    /\ evt_mainDoorCommandedState = [commandedState |-> "Unknown"]
    /\ short_status = NoStatus
    /\ tel_position = [azimuthPosition |-> 0, mainDoorOpeningPercentage |-> 0,
                       dropoutDoorOpeningPercentage |-> 0]
    /\ evt_azimuthState = [state |-> "Unset", homing |-> FALSE]
    /\ evt_dropoutDoorState = [state |-> "Unset"]
    /\ evt_mainDoorState = [state |-> "Unset"]
    /\ evt_azimuthInPosition = [inPosition |-> FALSE]
    /\ evt_shutterInPosition = [inPosition |-> FALSE]
    /\ evt_allAxesInPosition = [inPosition |-> FALSE]
    /\ evt_errorCode = [errorCode |-> 0]
    /\ task = [id \in TaskIds |-> IdleTask]
    /\ written = <<>>
    /\ ack = NoAck
    /\ started = 0
    /\ polls = 0
    /\ transitions = 0

\* room in the bounds for one more command callback, status request or
\* state transition command
MoreEvents == started + polls + transitions < MaxEvents

\* ---------------------------------------------------------- properties
connected == ~(reader = None \/ writer = None)

want_connection == summary_state \in {"DISABLED", "ENABLED"}

Finished(id) == task[id].pc \in {"idle", "done", "cancelled"}

\* ------------------------------------------------------------ the tasks
CommandKinds == {"moveAzimuth", "closeShutter", "openShutter", "stopMotion",
                 "homeAzimuth", "moveShutterDropoutDoor", "moveShutterMainDoor"}

\* ------------------------------------------------------------ the lock
\* asyncio.Lock.release by the holder, or the removal of a cancelled waiter
LockWithout(id) == SelectSeq(cmd_lock, LAMBDA x : x # id)

Holds(id) == cmd_lock # <<>> /\ Head(cmd_lock) = id

\* a lock that a newcomer may take ahead of those that wait for it
Acquire_unfair(id) == <<id>> \o cmd_lock

\* asyncio.Lock.acquire by task id: it holds the lock when the lock is free
\* and no one waits, else it waits behind those that came before
Acquire(id) == Append(cmd_lock, id)

\* the status_loop tasks that hold the lock for their exchange
StatusExchanges ==
    {l \in LoopIds : Holds(l) /\ task[l].pc # "wait_lock"}

\* the tasks once a status request has been written: the command callbacks
\* that wait for the lock have one more status exchange ahead of them
StatusWritten(tk) ==
    [u \in TaskIds |->
        IF tk[u].kind \in CommandKinds /\ tk[u].pc = "wait_lock"
        THEN [tk[u] EXCEPT !.ahead = @ + 1] ELSE tk[u]]

\* --------------------------------------------------------- run_command
\* a run_command that writes its command without waiting for the lock
run_command_enter_unlocked ==
    IF ~connected
    THEN IF want_connection /\ connect_task # None
         THEN "AttributeError" ELSE "RuntimeError"
    ELSE "wait_reply"

\* run_command from its call to its first suspension: the exception it
\* raises, or the await it stops at.  connect_task is the coroutine object
\* of asyncio.open_connection, which has no done(): AttributeError.
run_command_enter ==
    IF ~connected
    THEN IF want_connection /\ connect_task # None
         THEN "AttributeError" ELSE "RuntimeError"
    ELSE IF cmd_lock = <<>> THEN "wait_reply" ELSE "wait_lock"

\* whether "except Exception" catches asyncio.CancelledError (Python <= 3.7)
CancelledIsException == TRUE

\* The caller of run_command once it has returned (exc = None) or raised exc.
\* A command callback ends.  status_loop logs any Exception and goes to its
\* sleep; a CancelledError that is no Exception ends it.
Continue(c, exc) ==
    IF c.kind = "status_loop"
    THEN IF exc = "CancelledError" /\ ~CancelledIsException
         THEN [IdleTask EXCEPT !.pc = "cancelled", !.kind = c.kind]
         ELSE [c EXCEPT !.pc = "sleep", !.await = NoTask,
                        !.was_connected = TRUE]
    ELSE IdleTask

\* how a command callback ends: Complete, or the exception it raised
Result(exc) == IF exc = None THEN "Complete" ELSE exc

\* the acknowledgement of the command callback c
Acknowledge(c, exc) ==
    IF c.kind \in CommandKinds
    THEN [seq |-> c.seq, kind |-> c.kind, azimuth |-> c.azimuth,
          open |-> c.open, cmd |-> c.cmd, sent |-> c.sent,
          result |-> Result(exc), rd |-> c.rd]
    ELSE ack

\* the tasks once the command callback c has ended: those that started
\* while it was in progress record how it ended
Ended(tk, c, exc) ==
    [u \in TaskIds |-> [tk[u] EXCEPT !.over =
        {IF o[1] = c.seq THEN <<o[1], o[2], Result(exc)>> ELSE o : o \in @}]]

\* a status_loop that counts only the replies it has handled
CountStatus_handled(c, exc) ==
    IF c.kind = "status_loop" /\ exc = None /\ c.rd = Lines(expected_lines(c.cmd))
    THEN n_short_status + 1 ELSE n_short_status

\* n_short_status after run_command has ended in task c: status_loop counts
\* the request unless run_command raised
CountStatus(c, exc) ==
    IF c.kind = "status_loop" /\ exc = None
    THEN n_short_status + 1 ELSE n_short_status

\* the commanded states as one value
Commanded == [az |-> evt_azimuthCommandedState,
              dropout |-> evt_dropoutDoorCommandedState,
              main |-> evt_mainDoorCommandedState]

SetCommanded(cs) ==
    /\ evt_azimuthCommandedState' = cs.az
    /\ evt_dropoutDoorCommandedState' = cs.dropout
    /\ evt_mainDoorCommandedState' = cs.main

\* what a command handler does between its checks and its run_command call
BeforeRunCommand(c, cs) ==
    CASE c.kind = "stopMotion" ->
            [az |-> [cs.az EXCEPT !.commandedState = "Stop"],
             dropout |-> [commandedState |-> "Stop"],
             main |-> [commandedState |-> "Stop"]]
      [] c.kind = "homeAzimuth" ->
            [cs EXCEPT !.az = [commandedState |-> "Home", azimuth |-> NaN]]
      [] c.kind = "moveShutterDropoutDoor" ->
            [cs EXCEPT !.dropout =
                [commandedState |-> IF c.open THEN "Opened" ELSE "Closed"]]
      [] c.kind = "moveShutterMainDoor" ->
            [cs EXCEPT !.main =
                [commandedState |-> IF c.open THEN "Opened" ELSE "Closed"]]
      [] OTHER -> cs

\* handlers of which do_openShutter and do_closeShutter set the commanded
\* state of the main door only
AfterRunCommand_mainOnly(c, cs) ==
    CASE c.kind = "moveAzimuth" ->
            [cs EXCEPT !.az = [commandedState |-> "GoToPosition",
                               azimuth |-> Deg(c.azimuth)]]
      [] c.kind = "closeShutter" -> [cs EXCEPT !.main = [commandedState |-> "Closed"]]
      [] c.kind = "openShutter" -> [cs EXCEPT !.main = [commandedState |-> "Opened"]]
      [] OTHER -> cs

\* what a command handler does after its run_command call has returned
AfterRunCommand(c, cs) ==
    CASE c.kind = "moveAzimuth" ->
            [cs EXCEPT !.az = [commandedState |-> "GoToPosition",
                               azimuth |-> Deg(c.azimuth)]]
      [] c.kind = "closeShutter" ->
            [cs EXCEPT !.dropout = [commandedState |-> "Closed"],
                       !.main = [commandedState |-> "Closed"]]
      [] c.kind = "openShutter" ->
            [cs EXCEPT !.dropout = [commandedState |-> "Opened"],
                       !.main = [commandedState |-> "Opened"]]
      [] OTHER -> cs

\* a status_loop that forgets the commanded azimuth once a status request
\* has been answered
CommandedAfter_loopForgets(c, exc) ==
    IF exc # None THEN Commanded
    ELSE IF c.kind = "status_loop"
    THEN [Commanded EXCEPT !.az = [commandedState |-> "Unknown", azimuth |-> NaN]]
    ELSE AfterRunCommand(c, Commanded)

\* the commanded states once run_command has ended in task c
CommandedAfter(c, exc) ==
    IF exc = None THEN AfterRunCommand(c, Commanded) ELSE Commanded

\* the wire command of a command handler
WireCommand(c) ==
    CASE c.kind = "moveAzimuth" -> MoveAzCmd(c.azimuth)
      [] c.kind = "closeShutter" -> <<"SC">>
      [] c.kind = "openShutter" -> <<"SO">>
      [] c.kind = "stopMotion" -> <<"ST">>
      [] c.kind = "homeAzimuth" -> <<"HM">>
      [] c.kind = "moveShutterDropoutDoor" -> IF c.open THEN <<"DN">> ELSE <<"UP">>
      [] c.kind = "moveShutterMainDoor" -> IF c.open THEN <<"OP">> ELSE <<"CL">>

\* a homing check that reads the commanded state, not the reported flag
HomingRejects_commanded == evt_azimuthCommandedState.commandedState = "Home"

\* the homing check of do_moveAzimuth and do_homeAzimuth: TRUE iff the
\* command is refused
HomingRejects == evt_azimuthState.homing

\* a main door check that reads the commanded state, not the reported state
DropoutDoorRejects_commanded == evt_mainDoorCommandedState.commandedState # "Opened"

\* the check of do_moveShutterDropoutDoor: TRUE iff the command is refused
DropoutDoorRejects == evt_mainDoorState.state # "Opened"

\* a dropout door check that is made for open as well as for close
MainDoorRejects_anyMove(open) ==
    evt_dropoutDoorState.state \notin {"Closed", "Opened"}

\* the check of do_moveShutterMainDoor: TRUE iff the command is refused
MainDoorRejects(open) ==
    ~open /\ evt_dropoutDoorState.state \notin {"Closed", "Opened"}

\* assert_enabled and the checks of each handler
Rejects(c) ==
    \/ summary_state # "ENABLED"
    \/ c.kind = "moveAzimuth" /\ (HomingRejects \/ AzOutOfRange(c.azimuth))
    \/ c.kind = "homeAzimuth" /\ HomingRejects
    \/ c.kind = "moveShutterDropoutDoor" /\ DropoutDoorRejects
    \/ c.kind = "moveShutterMainDoor" /\ MainDoorRejects(c.open)

\* handlers that set the commanded states before they make their checks
HandlerChecks_setFirst(c, cs) ==
    [exc |-> IF Rejects(c) THEN "ExpectedError" ELSE None,
     commanded |-> BeforeRunCommand(c, cs)]

\* a handler up to its run_command call: the ExpectedError of assert_enabled
\* or of a check, which leaves the commanded states cs as they are, or else
\* the commanded states the handler sets before run_command
HandlerChecks(c, cs) ==
    IF Rejects(c)
    THEN [exc |-> "ExpectedError", commanded |-> cs]
    ELSE [exc |-> None, commanded |-> BeforeRunCommand(c, cs)]

\* ------------------------------------------------------ status handling
\* cancel_status_sleep: cancels the task stored in status_sleep_task, if any
cancel_status_sleep(tk) ==
    IF status_sleep_task # NoTask /\ tk[status_sleep_task].pc = "sleep"
    THEN [tk EXCEPT ![status_sleep_task].pc = "woken"]
    ELSE tk

\* handle_short_status; handle_full_status hands it the first five lines
handle_short_status(status) ==
    LET move_code == status.move_code
        position == [azimuthPosition |-> status.az_pos,
                     mainDoorOpeningPercentage |-> status.main_door_pct,
                     dropoutDoorOpeningPercentage |-> status.dropout_door_pct]
        in_position_mask ==
            compute_in_position_mask(move_code, position,
                evt_azimuthCommandedState, evt_dropoutDoorCommandedState,
                evt_mainDoorCommandedState)
        azimuth_in_position == "Az" \in in_position_mask
        shutter_in_position == {"DropoutDoor", "MainDoor"} \subseteq in_position_mask
    IN /\ short_status' = <<status>>
       /\ tel_position' = position
       /\ evt_azimuthState' = [state |-> compute_az_state(move_code),
                               homing |-> HasBit(move_code, Homing)]
       /\ evt_dropoutDoorState' =
              [state |-> compute_door_state(status.dropout_door_pct, FALSE, move_code)]
       /\ evt_mainDoorState' =
              [state |-> compute_door_state(status.main_door_pct, TRUE, move_code)]
       /\ evt_azimuthInPosition' = [inPosition |-> azimuth_in_position]
       /\ evt_shutterInPosition' = [inPosition |-> shutter_in_position]
       /\ evt_allAxesInPosition' =
              [inPosition |-> azimuth_in_position /\ shutter_in_position]

\* ---------------------------------------------------- command handlers
\* a new callback takes the first slot that is free
CanStart(t) ==
    /\ started < MaxStarted
    /\ MoreEvents
    /\ Finished(t)
    /\ \A u \in CmdIds : u[2] < t[2] => ~Finished(u)

\* the command callbacks in progress, with their commands
InProgress ==
    {<<task[u].seq, task[u].kind, "InProgress">> : u \in {x \in CmdIds : ~Finished(x)}}

\* A command handler from its start to its first suspension: assert_enabled
\* and the checks, the commanded state it sets before run_command, and
\* run_command up to the write of the command or the wait for the lock.
StartCommand(t, kind, azimuth, open) ==
    LET c0 == [IdleTask EXCEPT !.kind = kind, !.seq = started + 1,
                               !.azimuth = azimuth, !.open = open,
                               !.over = InProgress]
        c == [c0 EXCEPT !.cmd = WireCommand(c0)]
        h == HandlerChecks(c, Commanded)
        r == run_command_enter
    IN /\ CanStart(t)
       /\ started' = started + 1
       /\ SetCommanded(h.commanded)
       /\ IF h.exc # None
          THEN /\ task' = [task EXCEPT ![t] = Continue(c, h.exc)]
               /\ ack' = Acknowledge(c, h.exc)
               /\ UNCHANGED <<cmd_lock, written>>
          ELSE IF r = "wait_reply"
          THEN /\ task' = [task EXCEPT ![t] = [c EXCEPT !.pc = r, !.sent = 1]]
               /\ cmd_lock' = <<t>>
               /\ written' = Append(written, c.cmd)
               /\ UNCHANGED ack
          ELSE IF r = "wait_lock"
          THEN /\ task' = [task EXCEPT ![t] =
                               [c EXCEPT !.pc = r,
                                         !.ahead = Cardinality(StatusExchanges)]]
               /\ cmd_lock' = Acquire(t)
               /\ UNCHANGED <<ack, written>>
          ELSE /\ task' = [task EXCEPT ![t] = Continue(c, r)]
               /\ ack' = Acknowledge(c, r)
               /\ UNCHANGED <<cmd_lock, written>>
       /\ UNCHANGED <<summary_state, config, connVars, status_sleep_task,
                      n_short_status, statusVars, evt_errorCode, polls,
                      transitions>>

do_moveAzimuth(t) ==
    \E azimuth \in Azimuths : StartCommand(t, "moveAzimuth", azimuth, FALSE)

do_closeShutter(t) == StartCommand(t, "closeShutter", 0, FALSE)

do_openShutter(t) == StartCommand(t, "openShutter", 0, FALSE)

do_stopMotion(t) == StartCommand(t, "stopMotion", 0, FALSE)

do_homeAzimuth(t) == StartCommand(t, "homeAzimuth", 0, FALSE)

do_moveShutterDropoutDoor(t) ==
    \E open \in BOOLEAN : StartCommand(t, "moveShutterDropoutDoor", 0, open)

do_moveShutterMainDoor(t) ==
    \E open \in BOOLEAN : StartCommand(t, "moveShutterMainDoor", 0, open)

\* ------------------------------------------- run_command, continued
\* fault(code): the errorCode event and summary state FAULT.  Where it is
\* called the CSC is disconnected, so report_summary_state starts nothing.
fault(code) ==
    /\ evt_errorCode' = [errorCode |-> code]
    /\ summary_state' = "FAULT"

\* the tasks once the read of a reply has raised: every status_loop that
\* runs has seen the connection lost
ConnectionLost(tk) ==
    [u \in TaskIds |->
        IF tk[u].kind = "status_loop" /\ tk[u].pc \notin {"idle", "done", "cancelled"}
        THEN [tk[u] EXCEPT !.lost = TRUE] ELSE tk[u]]

\* run_command ends in task id: the lock is released (exit of "async with")
\* and the caller goes on; a command handler that goes on after run_command
\* has returned sets its commanded state and calls cancel_status_sleep
EndRunCommand(id, c, exc) ==
    /\ cmd_lock' = LockWithout(id)
    /\ n_short_status' = CountStatus(c, exc)
    /\ SetCommanded(CommandedAfter(c, exc))
    /\ ack' = Acknowledge(c, exc)
    /\ LET tk == IF c.rd = ReadRaised THEN ConnectionLost(task) ELSE task
       IN task' = [Ended(IF c.kind \in CommandKinds /\ exc = None
                         THEN cancel_status_sleep(tk) ELSE tk, c, exc)
                      EXCEPT ![id] = Continue(c, exc)]

\* a task that waited for the lock gets it and writes its command; with no
\* writer left the write raises AttributeError
run_command_locked(id) ==
    LET c == task[id]
    IN /\ c.pc = "wait_lock"
       /\ c.kind \in CommandKinds \cup {"status_loop"}
       /\ Holds(id)
       /\ IF writer = None
          THEN /\ EndRunCommand(id, c, "AttributeError")
               /\ UNCHANGED written
          ELSE /\ task' = [(IF c.kind = "status_loop"
                             THEN StatusWritten(task) ELSE task)
                               EXCEPT ![id] = [c EXCEPT !.pc = "wait_reply",
                                                        !.sent = @ + 1,
                                                        !.ahead = 0]]
               /\ written' = Append(written, c.cmd)
               /\ UNCHANGED <<cmd_lock, n_short_status, commandedVars, ack>>
       /\ UNCHANGED <<summary_state, config, connVars, status_sleep_task,
                      statusVars, evt_errorCode, boundVars>>

\* whether run_command hands a reply of n lines to handle_short_status or
\* handle_full_status
Decodes(cmd, n) == cmd \in {<<"?">>, <<"+">>} /\ n = expected_lines(cmd)

\* the exception of ShortStatus(lines) and RemainingStatus(lines) when a
\* field of the reply does not parse
MalformedStatus == "MalformedStatus"

\* a handler that sets the door percentages of the position while it is
\* still decoding the reply
handle_reply_partial(cmd, n, malformed) ==
    IF ~Decodes(cmd, n)
    THEN UNCHANGED statusVars
    ELSE IF malformed
    THEN /\ \E status \in Statuses :
               tel_position' =
                  [tel_position EXCEPT
                      !.mainDoorOpeningPercentage = status.main_door_pct,
                      !.dropoutDoorOpeningPercentage = status.dropout_door_pct]
         /\ UNCHANGED <<short_status, evt_azimuthState, evt_dropoutDoorState,
                        evt_mainDoorState, evt_azimuthInPosition,
                        evt_shutterInPosition, evt_allAxesInPosition>>
    ELSE \E status \in Statuses : handle_short_status(status)

\* What run_command does with a reply of n lines to cmd: a wrong line count
\* is logged and skipped, a status reply goes to handle_short_status
\* ("?") or handle_full_status ("+"), which hands its first five lines to
\* handle_short_status.  Both decode the lines before they set anything
\* (ShortStatus(lines), RemainingStatus(lines)); malformed tells that a
\* field does not parse.
handle_reply(cmd, n, malformed) ==
    IF ~Decodes(cmd, n) \/ malformed
    THEN UNCHANGED statusVars
    ELSE \E status \in Statuses : handle_short_status(status)

\* The reply has been read, n lines of it, and run_command returns, or
\* raises what the decoding of a status reply raised.
run_command_read(id, n, malformed) ==
    LET c == [task[id] EXCEPT !.rd = Lines(n)]
    IN /\ task[id].pc = "wait_reply"
       /\ malformed => Decodes(c.cmd, n)
       /\ handle_reply(c.cmd, n, malformed)
       /\ EndRunCommand(id, c, IF malformed THEN MalformedStatus ELSE None)
       /\ written' = <<>>
       /\ UNCHANGED <<summary_state, config, connVars, status_sleep_task,
                      evt_errorCode, boundVars>>

\* the reply has been read
run_command_reply(id) ==
    \E n \in LineCounts, malformed \in BOOLEAN : run_command_read(id, n, malformed)

\* disconnect() from its call to its wait for status_task: the streams are
\* forgotten and closed; "raise" when the half-close or the drain raises,
\* "return" when there is no status_task, else "await_status"
disconnect_enter(outcome) ==
    /\ reader' = None
    /\ writer' = None
    /\ written' = <<>>
    /\ outcome \in {"raise", "return", "await_status"}
    /\ outcome = "raise" => writer # None
    /\ outcome = "return" <=> status_task = NoTask

\* the read of the reply raised (timeout, or the stream ended):
\* run_command calls disconnect() and then fault(code=2)
run_command_read_failed(id) ==
    LET c == [task[id] EXCEPT !.rd = ReadRaised,
                              !.lost = (task[id].kind = "status_loop")]
    IN /\ task[id].pc = "wait_reply"
       /\ \E outcome \in {"raise", "return", "await_status"} :
             /\ disconnect_enter(outcome)
             /\ CASE outcome = "raise" ->
                        /\ EndRunCommand(id, c, "ConnectionResetError")
                        /\ UNCHANGED faultVars
                  [] outcome = "return" ->
                        /\ EndRunCommand(id, c, None)
                        /\ fault(ReadErrorCode)
                  [] outcome = "await_status" ->
                        /\ task' = [cancel_status_sleep(ConnectionLost(task))
                                       EXCEPT ![id] =
                               [c EXCEPT !.pc = "await_status",
                                         !.await = status_task,
                                         !.was_connected = connected]]
                        /\ UNCHANGED <<faultVars, cmd_lock, n_short_status,
                                       commandedVars, ack>>
       /\ UNCHANGED <<config, connect_task, status_task, status_sleep_task,
                      statusVars, boundVars>>

\* ----------------------------------------------------------- disconnect
\* the status_task that a disconnect() waits for has ended: disconnect()
\* returns, or raises the CancelledError status_task ended with
disconnect_waited(id) ==
    LET c == [task[id] EXCEPT !.await = NoTask]
        l == task[id].await
    IN /\ task[id].pc = "await_status"
       /\ Finished(l)
       /\ IF c.kind = "disconnect"
          THEN /\ task' = [task EXCEPT ![id] = IdleTask]
               /\ UNCHANGED <<cmd_lock, n_short_status, commandedVars, faultVars, ack>>
          ELSE IF task[l].pc = "cancelled"
          THEN /\ EndRunCommand(id, c, "CancelledError")
               /\ UNCHANGED faultVars
          ELSE /\ EndRunCommand(id, c, None)
               /\ fault(ReadErrorCode)
       /\ UNCHANGED <<config, connVars, status_sleep_task, statusVars, written,
                      boundVars>>

\* The wait for status_task times out, which happens when status_task cannot
\* end by itself: it waits for the lock, or it is itself inside disconnect().
\* wait_for cancels status_task and waits until it has ended.  When the
\* waiting task is status_task itself, the CancelledError is raised in it.
disconnect_timeout(id) ==
    LET c == task[id]
        l == c.await
    IN /\ c.pc = "await_status"
       /\ task[l].pc \in {"wait_lock", "await_status", "cancel_wait"}
       /\ IF l = id
          THEN EndRunCommand(id, c, "CancelledError")
          ELSE /\ task' = [task EXCEPT
                              ![l] = Continue(task[l], "CancelledError"),
                              ![id] = [c EXCEPT !.pc = "cancel_wait"]]
               /\ cmd_lock' = LockWithout(l)
               /\ UNCHANGED <<n_short_status, commandedVars, ack>>
       /\ UNCHANGED <<faultVars, config, connVars, status_sleep_task, statusVars,
                      written, boundVars>>

\* the cancelled status_task has ended: wait_for raises TimeoutError
cancel_waited(id) ==
    LET c == [task[id] EXCEPT !.await = NoTask]
    IN /\ task[id].pc = "cancel_wait"
       /\ Finished(task[id].await)
       /\ IF c.kind = "disconnect"
          THEN /\ task' = [task EXCEPT ![id] = IdleTask]
               /\ UNCHANGED <<cmd_lock, n_short_status, commandedVars, ack>>
          ELSE EndRunCommand(id, c, "TimeoutError")
       /\ UNCHANGED <<faultVars, config, connVars, status_sleep_task, statusVars,
                      written, boundVars>>

\* a disconnect() started by report_summary_state
disconnect_start(a) ==
    LET c == task[a]
    IN /\ c.pc = "start"
       /\ c.kind = "disconnect"
       /\ \E outcome \in {"raise", "return", "await_status"} :
             /\ disconnect_enter(outcome)
             /\ task' = [(IF outcome = "raise" THEN task
                          ELSE cancel_status_sleep(task)) EXCEPT ![a] =
                            IF outcome = "await_status"
                            THEN [c EXCEPT !.pc = "await_status",
                                           !.await = status_task,
                                           !.was_connected = connected]
                            ELSE IdleTask]
       /\ UNCHANGED <<faultVars, config, connect_task, status_task,
                      status_sleep_task, n_short_status, cmd_lock, commandedVars,
                      statusVars, ack, boundVars>>

\* ------------------------------------------------- summary state changes
FreeAux(tk) == {a \in AuxIds : tk[a].pc = "idle"}

\* report_summary_state: starts connect() or disconnect() when connected
\* differs from want_connection; the tasks afterwards
report_summary_state(tk, state, isConnected) ==
    LET want == state \in {"DISABLED", "ENABLED"}
        a == CHOOSE x \in FreeAux(tk) : \A y \in FreeAux(tk) : x[2] <= y[2]
    IN IF isConnected = want THEN tk
       ELSE [tk EXCEPT ![a] = [IdleTask EXCEPT !.pc = "start",
                 !.kind = IF want THEN "connect" ELSE "disconnect"]]

\* a task slot is there for the coroutine report_summary_state starts
CanReport(tk, state, isConnected) ==
    isConnected = (state \in {"DISABLED", "ENABLED"}) \/ FreeAux(tk) # {}

\* the state transition commands of salobj: start, enable, disable, standby
Transitions == {<<"STANDBY", "DISABLED">>, <<"DISABLED", "ENABLED">>,
                <<"ENABLED", "DISABLED">>, <<"DISABLED", "STANDBY">>,
                <<"FAULT", "STANDBY">>}

\* a state transition command: start configures the CSC; the new summary
\* state is reported
do_transition ==
    \E tr \in Transitions :
       /\ transitions < MaxTransitions
       /\ MoreEvents
       /\ transitions' = transitions + 1
       /\ summary_state = tr[1]
       /\ CanReport(task, tr[2], connected)
       /\ summary_state' = tr[2]
       /\ config' = IF tr[1] = "STANDBY" THEN "config" ELSE config
       /\ task' = report_summary_state(task, tr[2], connected)
       /\ UNCHANGED <<connVars, status_sleep_task, n_short_status, cmd_lock,
                      commandedVars, statusVars, evt_errorCode, written, ack,
                      started, polls>>

\* -------------------------------------------------------------- connect
\* connect() from its call to its first suspension: the exception it raises,
\* "return" when it ignores the call, or the await it stops at
connect_enter ==
    IF config = None \/ connected THEN "RuntimeError"
    ELSE IF connect_task # None THEN "return"
    ELSE IF cmd_lock = <<>> THEN "opening" ELSE "wait_lock"

\* connect() from its start to its first suspension: the checks, then the
\* lock; with the lock it stores the open_connection coroutine and waits
\* for the streams
connect_start(a) ==
    LET c == task[a]
        r == connect_enter
    IN /\ c.pc = "start"
       /\ c.kind = "connect"
       /\ IF r \in {"RuntimeError", "return"}
          THEN /\ task' = [task EXCEPT ![a] = IdleTask]
               /\ UNCHANGED <<cmd_lock, connect_task>>
          ELSE IF r = "opening"
          THEN /\ task' = [task EXCEPT ![a] = [c EXCEPT !.pc = "opening"]]
               /\ cmd_lock' = <<a>>
               /\ connect_task' = "coroutine"
          ELSE /\ task' = [task EXCEPT ![a] = [c EXCEPT !.pc = "wait_lock"]]
               /\ cmd_lock' = Acquire(a)
               /\ UNCHANGED connect_task
       /\ UNCHANGED <<faultVars, config, reader, writer, status_task,
                      status_sleep_task, n_short_status, commandedVars,
                      statusVars, written, ack, boundVars>>

\* connect() gets the lock it waited for
connect_locked(a) ==
    LET c == task[a]
    IN /\ c.pc = "wait_lock"
       /\ c.kind = "connect"
       /\ Holds(a)
       /\ task' = [task EXCEPT ![a] = [c EXCEPT !.pc = "opening"]]
       /\ connect_task' = "coroutine"
       /\ UNCHANGED <<faultVars, config, reader, writer, status_task,
                      status_sleep_task, n_short_status, cmd_lock, commandedVars,
                      statusVars, written, ack, boundVars>>

\* the except and finally clauses of connect(): the lock is released, the
\* summary state becomes FAULT and is reported, errorCode 1 is put
connect_failed(a) ==
    /\ cmd_lock' = LockWithout(a)
    /\ summary_state' = "FAULT"
    /\ evt_errorCode' = [errorCode |-> ConnectErrorCode]
    /\ connect_task' = None
    /\ task' = report_summary_state(
                   [task EXCEPT ![a] = IdleTask],
                   "FAULT", connected)
    /\ UNCHANGED <<reader, writer, status_task>>

\* open_connection has ended: the streams are stored, or it raised or
\* timed out
connect_opened(a) ==
    /\ task[a].pc = "opening"
    /\ \/ /\ reader' = WelcomeUnread
          /\ writer' = "StreamWriter"
          /\ task' = [task EXCEPT ![a] = [task[a] EXCEPT !.pc = "banner"]]
          /\ UNCHANGED <<faultVars, cmd_lock, connect_task, status_task>>
       \/ connect_failed(a)
    /\ UNCHANGED <<config, status_sleep_task, n_short_status, commandedVars,
                   statusVars, written, ack, boundVars>>

\* a status_loop slot no task refers to
FreeLoops == {l \in LoopIds : Finished(l) /\ \A id \in TaskIds : task[id].await # l}

\* the welcome message has been read and status_loop is started, or the
\* read raised or timed out; running bounds the status_loop tasks that run
connect_read_banner(a, running) ==
    /\ task[a].pc = "banner"
    /\ \/ /\ FreeLoops # {}
          /\ Cardinality(LoopIds \ FreeLoops) < running
          /\ LET l == CHOOSE x \in FreeLoops : \A y \in FreeLoops : x[2] <= y[2]
             IN /\ task' = [task EXCEPT
                               ![a] = IdleTask,
                               ![l] = [IdleTask EXCEPT !.pc = "start",
                                                       !.kind = "status_loop"]]
                /\ status_task' = l
          /\ cmd_lock' = LockWithout(a)
          /\ connect_task' = None
          /\ reader' = IF reader = None THEN None ELSE StreamReader
          /\ UNCHANGED <<faultVars, writer>>
       \/ connect_failed(a)
    /\ UNCHANGED <<config, status_sleep_task, n_short_status, commandedVars,
                   statusVars, written, ack, boundVars>>

\* connect() at its read of the welcome message, within the bound on the
\* status_loop tasks that run
connect_banner(a) == connect_read_banner(a, MaxRunning)

\* ---------------------------------------------------------- status_loop
\* status_loop from its start, or from the end of its sleep, to its next
\* suspension: it ends when not connected, else it requests full status
\* when n_short_status is a multiple of short_per_full and short status
\* otherwise; more tells whether the bounds leave room for the request
status_loop_cycle(l, more) ==
    LET c == task[l]
        full == n_short_status % short_per_full = 0
        wire == IF full THEN <<"+">> ELSE <<"?">>
        r == run_command_enter
    IN /\ c.kind = "status_loop"
       /\ c.pc \in {"start", "sleep", "woken"}
       /\ status_sleep_task' = NoTask
       /\ IF ~connected
          THEN /\ task' = [task EXCEPT ![l] = [IdleTask EXCEPT !.pc = "done",
                                                              !.kind = c.kind]]
               /\ UNCHANGED <<n_short_status, cmd_lock, written, polls>>
          ELSE /\ more
               /\ polls' = polls + 1
               /\ n_short_status' = IF full THEN 0 ELSE n_short_status
               /\ cmd_lock' = Acquire(l)
               /\ task' = [task EXCEPT ![l] = [c EXCEPT !.pc = r, !.cmd = wire,
                                                        !.rd = NoRead]]
               /\ written' = IF r = "wait_reply" THEN Append(written, wire)
                             ELSE written
       /\ UNCHANGED <<faultVars, config, connVars, commandedVars, statusVars,
                      ack, started, transitions>>

\* status_loop within the bounds on status requests and events
status_loop(l) == status_loop_cycle(l, polls < MaxPolls /\ MoreEvents)

\* -------------------------------------------------------- specification
Next ==
    \/ \E t \in CmdIds : do_moveAzimuth(t)
    \/ \E t \in CmdIds : do_closeShutter(t)
    \/ \E t \in CmdIds : do_openShutter(t)
    \/ \E t \in CmdIds : do_stopMotion(t)
    \/ \E t \in CmdIds : do_homeAzimuth(t)
    \/ \E t \in CmdIds : do_moveShutterDropoutDoor(t)
    \/ \E t \in CmdIds : do_moveShutterMainDoor(t)
    \/ \E id \in TaskIds : run_command_locked(id)
    \/ \E id \in TaskIds : run_command_reply(id)
    \/ \E id \in TaskIds : run_command_read_failed(id)
    \/ \E id \in TaskIds : disconnect_waited(id)
    \/ \E id \in TaskIds : disconnect_timeout(id)
    \/ \E id \in TaskIds : cancel_waited(id)
    \/ \E a \in AuxIds : disconnect_start(a)
    \/ \E a \in AuxIds : connect_start(a)
    \/ \E a \in AuxIds : connect_locked(a)
    \/ \E a \in AuxIds : connect_opened(a)
    \/ \E a \in AuxIds : connect_banner(a)
    \/ \E l \in LoopIds : status_loop(l)
    \/ do_transition

Spec == Init /\ [][Next]_vars

\* ------------------------------------------- status handling on its own
\* handle_short_status as a function of the decoded reply and the commanded
\* states: the CSC is enabled and connected, any command may have run
StatusInit ==
    /\ summary_state = "ENABLED"
    /\ config = "config"
    /\ reader = StreamReader
    /\ writer = "StreamWriter"
    /\ connect_task = None
    /\ status_task = NoTask
    /\ status_sleep_task = NoTask
    /\ n_short_status = 0
    /\ cmd_lock = <<>>
    /\ evt_azimuthCommandedState \in AzimuthCommandedStates
    /\ evt_dropoutDoorCommandedState \in ShutterDoorCommandedStates
    /\ evt_mainDoorCommandedState \in ShutterDoorCommandedStates
    /\ short_status = NoStatus
    /\ tel_position = [azimuthPosition |-> 0, mainDoorOpeningPercentage |-> 0,
                       dropoutDoorOpeningPercentage |-> 0]
    /\ evt_azimuthState = [state |-> "Unset", homing |-> FALSE]
    /\ evt_dropoutDoorState = [state |-> "Unset"]
    /\ evt_mainDoorState = [state |-> "Unset"]
    /\ evt_azimuthInPosition = [inPosition |-> FALSE]
    /\ evt_shutterInPosition = [inPosition |-> FALSE]
    /\ evt_allAxesInPosition = [inPosition |-> FALSE]
    /\ evt_errorCode = [errorCode |-> 0]
    /\ task = [id \in TaskIds |-> IdleTask]
    /\ written = <<>>
    /\ ack = NoAck
    /\ started = 0
    /\ polls = 0
    /\ transitions = 0

\* a status reply with the expected number of lines is handled
HandleStatus ==
    /\ polls < MaxHandled
    /\ polls' = polls + 1
    /\ \E status \in AllStatuses : handle_short_status(status)
    /\ UNCHANGED <<faultVars, config, connVars, status_sleep_task,
                   n_short_status, cmd_lock, commandedVars, task, written,
                   ack, started, transitions>>

StatusNext == HandleStatus

StatusSpec == StatusInit /\ [][StatusNext]_vars

\* ---------------------------------------------- status_loop on its own
\* status_loop right after the first connect(): the CSC is disabled and
\* connected, status_task is about to run, no command can be issued
PollInit ==
    /\ summary_state = "DISABLED"
    /\ config = "config"
    /\ reader = StreamReader
    /\ writer = "StreamWriter"
    /\ connect_task = None
    /\ status_task = <<"loop", 1>>
    /\ status_sleep_task = NoTask
    /\ n_short_status = 0
    /\ cmd_lock = <<>>
    /\ evt_azimuthCommandedState = [commandedState |-> "Unknown", azimuth |-> NaN]
    /\ evt_dropoutDoorCommandedState = [commandedState |-> "Unknown"]
    /\ evt_mainDoorCommandedState = [commandedState |-> "Unknown"]
    /\ short_status = NoStatus
    /\ tel_position = [azimuthPosition |-> 0, mainDoorOpeningPercentage |-> 0,
                       dropoutDoorOpeningPercentage |-> 0]
    /\ evt_azimuthState = [state |-> "Unset", homing |-> FALSE]
    /\ evt_dropoutDoorState = [state |-> "Unset"]
    /\ evt_mainDoorState = [state |-> "Unset"]
    /\ evt_azimuthInPosition = [inPosition |-> FALSE]
    /\ evt_shutterInPosition = [inPosition |-> FALSE]
    /\ evt_allAxesInPosition = [inPosition |-> FALSE]
    /\ evt_errorCode = [errorCode |-> 0]
    /\ task = [id \in TaskIds |->
                  IF id = <<"loop", 1>>
                  THEN [IdleTask EXCEPT !.pc = "start", !.kind = "status_loop"]
                  ELSE IdleTask]
    /\ written = <<>>
    /\ ack = NoAck
    /\ started = 0
    /\ polls = 0
    /\ transitions = 0

\* status_loop with room for MaxCycles status requests
poll_cycle(l) == status_loop_cycle(l, polls < MaxCycles)

\* the reply to a status request has been read and run_command returns
poll_reply(l) == \E n \in LineCounts : run_command_read(l, n, FALSE)

PollNext ==
    \/ \E l \in LoopIds : poll_cycle(l)
    \/ \E l \in LoopIds : poll_reply(l)

PollSpec == PollInit /\ [][PollNext]_vars

\* ------------------------------------- disconnecting and reconnecting
\* status_loop within the bounds of LoopSpec
loop_cycle(l) == status_loop_cycle(l, polls < MaxLoopPolls /\ MoreEvents)

\* connect() at its read of the welcome message; the status_loop it starts
\* may be the second that runs
reconnect_banner(a) == connect_read_banner(a, MaxLoops)

\* the CSC after its first connect(): state transitions disconnect and
\* connect it while status loops run; the commands issued are stopMotion
LoopNext ==
    \/ \E t \in CmdIds : do_stopMotion(t)
    \/ \E id \in TaskIds : run_command_locked(id)
    \/ \E id \in TaskIds : run_command_reply(id)
    \/ \E id \in TaskIds : run_command_read_failed(id)
    \/ \E id \in TaskIds : disconnect_waited(id)
    \/ \E id \in TaskIds : disconnect_timeout(id)
    \/ \E id \in TaskIds : cancel_waited(id)
    \/ \E a \in AuxIds : disconnect_start(a)
    \/ \E a \in AuxIds : connect_start(a)
    \/ \E a \in AuxIds : connect_locked(a)
    \/ \E a \in AuxIds : connect_opened(a)
    \/ \E a \in AuxIds : reconnect_banner(a)
    \/ \E l \in LoopIds : loop_cycle(l)
    \/ do_transition

LoopSpec == PollInit /\ [][LoopNext]_vars

\* ============================================================ properties
\* the step starts a command callback
Issued == started' = started + 1

\* the command callback that the step starts
IssuedCmd ==
    IF ack'.seq = started' THEN ack'
    ELSE LET t == CHOOSE u \in CmdIds : task'[u].seq = started'
         IN [seq |-> task'[t].seq, kind |-> task'[t].kind,
             azimuth |-> task'[t].azimuth, open |-> task'[t].open,
             cmd |-> task'[t].cmd, sent |-> task'[t].sent,
             result |-> "InProgress", rd |-> task'[t].rd]

\* the step starts a command callback that is refused with ExpectedError
\* and writes nothing
IssuedRejected ==
    /\ IssuedCmd.result = "ExpectedError"
    /\ IssuedCmd.sent = 0
    /\ written' = written

\* the commanded states of azimuth, dropout door and main door
CommandedStates(cs) ==
    <<cs.az.commandedState, cs.dropout.commandedState, cs.main.commandedState>>

\* the commanded states after the step
CommandedNext == [az |-> evt_azimuthCommandedState',
                  dropout |-> evt_dropoutDoorCommandedState',
                  main |-> evt_mainDoorCommandedState']

\* the step ends the command callback of task id
Ends(id) ==
    /\ task[id].kind \in CommandKinds
    /\ ~Finished(id)
    /\ ack'.seq = task[id].seq

\* C1: moveAzimuth(a) with a < 0 or a > 360 deg is refused with
\* ExpectedError and writes no wire command; every a in [0, 360], limits
\* included, passes the range check: when the CSC is enabled and connected
\* and the reported homing flag is false, the callback goes on to
\* run_command with the azimuth rounded to 0.001 deg and "MV", which it
\* writes at once when the lock is free, and else once it gets the lock while
\* the writer is there.
C1_AzimuthRange ==
    [][/\ (Issued /\ IssuedCmd.kind = "moveAzimuth") =>
            LET a == IssuedCmd.azimuth
                wire == IssuedCmd.cmd
            IN /\ (a < 0 \/ a > 3600000) => IssuedRejected
               /\ (/\ 0 <= a
                   /\ a <= 3600000
                   /\ summary_state = "ENABLED"
                   /\ connected
                   /\ ~evt_azimuthState.homing) =>
                      /\ IssuedCmd.result = "InProgress"
                      /\ Len(wire) = 2
                      /\ wire[1] = "MV"
                      /\ Abs(10 * wire[2] - a) <= 5
                      /\ IF cmd_lock = <<>>
                         THEN written' = Append(written, wire)
                         ELSE written' = written /\ IssuedCmd.sent = 0
       /\ \A t \in CmdIds :
            (/\ task[t].kind = "moveAzimuth"
             /\ task[t].pc = "wait_lock"
             /\ task'[t].pc = "wait_reply") =>
                written' = Append(written, task[t].cmd)
      ]_vars

\* C1: moveAzimuth(360) has written "360.000 MV"
C1_Witness ==
    \E t \in CmdIds :
       /\ task[t].kind = "moveAzimuth"
       /\ task[t].azimuth = AzMax
       /\ task[t].pc = "wait_reply"
       /\ written = << <<"MV", 360000>> >>

\* C2: moveShutterDropoutDoor, open or close, is refused whenever the
\* reported state of the main door is not Opened, whatever the commanded
\* states are; when refused it writes no wire command.
C2_DropoutDoorNeedsMainOpened ==
    [][(/\ Issued
        /\ IssuedCmd.kind = "moveShutterDropoutDoor"
        /\ evt_mainDoorState.state # "Opened") => IssuedRejected]_vars

\* C2: the CSC is enabled and the main door is commanded Opened and
\* reported Closing when moveShutterDropoutDoor is refused
C2_Witness ==
    /\ ack.kind = "moveShutterDropoutDoor"
    /\ ack.result = "ExpectedError"
    /\ ack.seq = started
    /\ summary_state = "ENABLED"
    /\ evt_mainDoorCommandedState.commandedState = "Opened"
    /\ evt_mainDoorState.state = "Closing"
    /\ written = <<>>

\* C3: moveShutterMainDoor(open=False) is refused, and writes nothing,
\* whenever the reported state of the dropout door is neither Closed nor
\* Opened; moveShutterMainDoor(open=True) of an enabled CSC is never refused,
\* whatever the state of the dropout door is.
C3_MainDoorNeedsDropoutHalted ==
    [][(Issued /\ IssuedCmd.kind = "moveShutterMainDoor") =>
          /\ (/\ ~IssuedCmd.open
              /\ evt_dropoutDoorState.state \notin {"Closed", "Opened"})
                 => IssuedRejected
          /\ (IssuedCmd.open /\ summary_state = "ENABLED")
                 => IssuedCmd.result # "ExpectedError"]_vars

\* C3: the CSC is enabled and the dropout door is reported PartiallyOpened
\* when moveShutterMainDoor(open=False) is refused
C3_Witness ==
    /\ ack.kind = "moveShutterMainDoor"
    /\ ~ack.open
    /\ ack.result = "ExpectedError"
    /\ ack.seq = started
    /\ summary_state = "ENABLED"
    /\ evt_dropoutDoorState.state = "PartiallyOpened"

\* C4: moveAzimuth and homeAzimuth are refused, and write nothing, whenever
\* the reported azimuth state has its homing flag set.
C4_HomingRejects ==
    [][(/\ Issued
        /\ IssuedCmd.kind \in {"moveAzimuth", "homeAzimuth"}
        /\ evt_azimuthState.homing) => IssuedRejected]_vars

\* C4: the CSC is enabled and the homing flag is set when a moveAzimuth in
\* range is refused
C4_Witness ==
    /\ ack.kind = "moveAzimuth"
    /\ ~AzOutOfRange(ack.azimuth)
    /\ ack.result = "ExpectedError"
    /\ ack.seq = started
    /\ summary_state = "ENABLED"
    /\ evt_azimuthState.homing
    /\ evt_azimuthCommandedState.commandedState # "Home"

\* C5: a command that an enabled CSC refuses on a precondition leaves the
\* commanded states, the reported position, the reported states and the
\* in-position flags as they were.
C5_RejectedChangesNothing ==
    [][(/\ Issued
        /\ summary_state = "ENABLED"
        /\ IssuedCmd.result = "ExpectedError")
            => UNCHANGED <<commandedVars, statusVars>>]_vars

\* C5: homeAzimuth is refused while homing; azimuth stays commanded
\* GoToPosition
C5_Witness ==
    /\ ack.kind = "homeAzimuth"
    /\ ack.result = "ExpectedError"
    /\ ack.seq = started
    /\ summary_state = "ENABLED"
    /\ evt_azimuthState.homing
    /\ evt_azimuthCommandedState.commandedState = "GoToPosition"

\* the wire command of a command, by the command table
TableWire(c) ==
    CASE c.kind = "moveAzimuth" -> c.cmd
      [] c.kind = "homeAzimuth" -> <<"HM">>
      [] c.kind = "openShutter" -> <<"SO">>
      [] c.kind = "closeShutter" -> <<"SC">>
      [] c.kind = "moveShutterDropoutDoor" -> IF c.open THEN <<"DN">> ELSE <<"UP">>
      [] c.kind = "moveShutterMainDoor" -> IF c.open THEN <<"OP">> ELSE <<"CL">>
      [] c.kind = "stopMotion" -> <<"ST">>

\* the commanded states of azimuth, dropout door and main door after the
\* update of the command table, from the commanded states s before it
TableUpdate(c, s) ==
    CASE c.kind = "moveAzimuth" -> <<"GoToPosition", s[2], s[3]>>
      [] c.kind = "homeAzimuth" -> <<"Home", s[2], s[3]>>
      [] c.kind = "openShutter" -> <<s[1], "Opened", "Opened">>
      [] c.kind = "closeShutter" -> <<s[1], "Closed", "Closed">>
      [] c.kind = "moveShutterDropoutDoor" ->
            <<s[1], IF c.open THEN "Opened" ELSE "Closed", s[3]>>
      [] c.kind = "moveShutterMainDoor" ->
            <<s[1], s[2], IF c.open THEN "Opened" ELSE "Closed">>
      [] c.kind = "stopMotion" -> <<"Stop", "Stop", "Stop">>

\* the step ends, with its exchange done and no lines in the reply, a
\* command callback
Succeeds(id) ==
    /\ Ends(id)
    /\ ack'.result = "Complete"
    /\ ack'.rd = Lines(0)

\* no other command callback was in progress when that of task id started,
\* and none has started since
Alone(id) == task[id].over = {} /\ task[id].seq = started

\* C6: an accepted command whose exchange succeeds has written one wire
\* command, that of the command table (for moveAzimuth the azimuth rounded
\* to 0.001 deg and "MV").  A step of its callback changes the commanded
\* states by the table's update or not at all, and when no other command
\* ran meanwhile the commanded states at its end are those of the table's
\* update (for moveAzimuth with the azimuth), the other axes as they were.
C6_CommandTable ==
    [][/\ (Issued /\ IssuedCmd.result = "InProgress") =>
            \/ UNCHANGED commandedVars
            \/ CommandedStates(CommandedNext)
                  = TableUpdate(IssuedCmd, CommandedStates(Commanded))
       /\ \A id \in CmdIds : Succeeds(id) =>
            /\ ack'.sent = 1
            /\ ack'.cmd = TableWire(ack')
            /\ ack'.kind = "moveAzimuth" =>
                  /\ ack'.cmd[1] = "MV"
                  /\ Abs(10 * ack'.cmd[2] - ack'.azimuth) <= 5
            /\ \/ UNCHANGED commandedVars
               \/ CommandedStates(CommandedNext)
                     = TableUpdate(ack', CommandedStates(Commanded))
            /\ Alone(id) =>
                  /\ CommandedStates(CommandedNext)
                        = TableUpdate(ack', CommandedStates(Commanded))
                  /\ ack'.kind = "moveAzimuth" =>
                        evt_azimuthCommandedState'.azimuth = Deg(ack'.azimuth)
      ]_vars

\* C6: moveShutterDropoutDoor(open=True) has ended with its exchange done:
\* "DN" was written once and the dropout door is commanded Opened
C6_Witness ==
    /\ ack.kind = "moveShutterDropoutDoor"
    /\ ack.open
    /\ ack.result = "Complete"
    /\ ack.rd = Lines(0)
    /\ ack.cmd = <<"DN">>
    /\ ack.sent = 1
    /\ ack.seq = started
    /\ evt_dropoutDoorCommandedState.commandedState = "Opened"

\* C7: once stopMotion has returned with its exchange done, and no command
\* was issued after it, azimuth, dropout door and main door are commanded
\* Stop, also when another command was in progress when it was issued.
C7_StopMotionLeavesStop ==
    (/\ ack.kind = "stopMotion"
     /\ ack.result = "Complete"
     /\ ack.rd = Lines(0)
     /\ ack.seq = started)
        => CommandedStates(Commanded) = <<"Stop", "Stop", "Stop">>

\* the commands that supersede an outstanding command: <<outstanding,
\* superseding>>
Supersessions ==
    {<<"openShutter", "closeShutter">>, <<"closeShutter", "openShutter">>,
     <<"moveShutterDropoutDoor", "openShutter">>,
     <<"moveShutterMainDoor", "closeShutter">>,
     <<"openShutter", "stopMotion">>}

\* C8: when a command supersedes a command that was outstanding when it was
\* issued, the outstanding command has been reported aborted by the time
\* the superseding command's wire command is written.
C8_Supersession ==
    \A t \in CmdIds : \A o \in task[t].over :
        (task[t].sent > 0 /\ <<o[2], task[t].kind>> \in Supersessions)
            => o[3] = "Aborted"

\* the step ends run_command in task id after the read of its reply raised
FailedExchangeEnds(id) ==
    /\ task[id].pc \in {"wait_reply", "await_status", "cancel_wait"}
    /\ \/ /\ task[id].kind = "status_loop"
          /\ task'[id].pc \in {"sleep", "cancelled"}
          /\ task[id].pc = "wait_reply" => task'[id].rd = ReadRaised
          /\ task[id].pc # "wait_reply" => task[id].rd = ReadRaised
       \/ /\ Ends(id)
          /\ ack'.rd = ReadRaised

\* C9: whenever the read of the reply of an exchange, of the status loop or
\* of a command, times out or meets the end of the stream, then by the end
\* of that exchange the CSC is disconnected and in FAULT, and errorCode 2
\* has been put.
C9_ReadFailureFaults ==
    [][\A id \in TaskIds : FailedExchangeEnds(id) =>
          /\ ~connected'
          /\ summary_state' = "FAULT"
          /\ evt_errorCode'.errorCode = 2]_vars

\* the expected number of lines of a reply, the final ">" line excluded
TableLines(cmd) ==
    IF cmd = <<"?">> THEN 5 ELSE IF cmd = <<"+">> THEN 25 ELSE 0

\* the step reads, in task id, a reply of n lines
ReplyRead(id, n) ==
    /\ task[id].pc = "wait_reply"
    /\ \/ task[id].kind = "status_loop" /\ task'[id].rd = Lines(n)
       \/ Ends(id) /\ ack'.rd = Lines(n)

\* C10: a reply whose number of lines differs from the expected number of
\* its command (5 for "?", 25 for "+", 0 for any other command) changes
\* neither the reported position, the reported states nor the in-position
\* flags, leaves the streams, the summary state and errorCode as they are,
\* and the status loop counts the request and goes on to its sleep.
C10_WrongLineCount ==
    [][\A id \in TaskIds : \A n \in LineCounts :
          (ReplyRead(id, n) /\ n # TableLines(task[id].cmd)) =>
              /\ UNCHANGED <<statusVars, reader, writer, faultVars>>
              /\ task[id].kind = "status_loop" =>
                    /\ task'[id].pc = "sleep"
                    /\ n_short_status' = n_short_status + 1]_vars

\* C10: the status loop is at its sleep after a reply of 4 lines to "?";
\* the CSC is connected and no errorCode was put
C10_Witness ==
    \E l \in LoopIds :
       /\ task[l].pc = "sleep"
       /\ task[l].cmd = <<"?">>
       /\ task[l].rd = Lines(4)
       /\ connected
       /\ evt_errorCode.errorCode = 0
       /\ summary_state # "FAULT"

\* connect() of task a has the lock and waits for the streams or for the
\* welcome message
ConnectPending(a) ==
    task[a].kind = "connect" /\ task[a].pc \in {"opening", "banner"}

\* the step starts a status_loop task
LoopStarted ==
    \/ status_task' # status_task
    \/ \E l \in LoopIds : task'[l].pc = "start" /\ task[l].pc # "start"

\* the step starts a connect attempt: open_connection is called
AttemptStarts == connect_task = None /\ connect_task' # None

\* the step schedules a call of connect()
ConnectScheduled ==
    \E a \in AuxIds :
       /\ task'[a].kind = "connect"
       /\ task'[a].pc = "start"
       /\ task[a].pc # "start"

\* the step ends the connect attempt of task a in failure: the streams were
\* not opened, or the welcome message was not read
ConnectFails(a) ==
    /\ ConnectPending(a)
    /\ task'[a] # task[a]
    /\ ~(task[a].pc = "opening" /\ task'[a].pc = "banner" /\ connected')
    /\ ~(task[a].pc = "banner" /\ LoopStarted)

\* the last connect attempt failed, and no state transition has been made
\* since
ConnectFailed == summary_state = "FAULT" /\ evt_errorCode.errorCode = 1

\* C11: a connect attempt that fails, while the streams are opened or while
\* the welcome message is read, puts errorCode 1 and makes the summary state
\* FAULT, starts no status loop and schedules no call of connect(); and no
\* connect attempt starts while the summary state is still the FAULT of a
\* failed attempt, that is, before a state transition has made the
\* connection wanted again.
C11_ConnectFailureFaults ==
    [][/\ \A a \in AuxIds : ConnectFails(a) =>
             /\ summary_state' = "FAULT"
             /\ evt_errorCode'.errorCode = 1
             /\ ~LoopStarted
             /\ ~ConnectScheduled
             /\ ~AttemptStarts
       /\ AttemptStarts => ~ConnectFailed
      ]_vars

\* the failing step of C11 alone: errorCode 1, FAULT, no status loop, no
\* call of connect()
ConnectFailureFaults ==
    [][\A a \in AuxIds : ConnectFails(a) =>
             /\ summary_state' = "FAULT"
             /\ evt_errorCode'.errorCode = 1
             /\ ~LoopStarted
             /\ ~ConnectScheduled
             /\ ~AttemptStarts
      ]_vars

\* C12: a call of connect() that runs while another connect() waits for the
\* streams or for the welcome message returns without an exception, and
\* leaves the streams, connect_task, the lock, the summary state, errorCode
\* and the waiting connect() as they are.
C12_OneConnectInFlight ==
    [][\A a \in AuxIds :
          (/\ task[a].kind = "connect"
           /\ task[a].pc = "start"
           /\ task'[a].pc # "start"
           /\ \E b \in AuxIds \ {a} : ConnectPending(b)) =>
              /\ connect_enter = "return"
              /\ UNCHANGED <<reader, writer, connect_task, cmd_lock, faultVars>>
              /\ \A b \in AuxIds \ {a} : task'[b] = task[b]
      ]_vars

\* the part of C12 that holds: no second attempt starts, and the waiting
\* connect() is left as it is
SecondConnectOpensNothing ==
    [][\A a \in AuxIds :
          (/\ task[a].kind = "connect"
           /\ task[a].pc = "start"
           /\ task'[a].pc # "start"
           /\ \E b \in AuxIds \ {a} : ConnectPending(b)) =>
              /\ connect_enter \in {"return", "RuntimeError"}
              /\ UNCHANGED <<reader, writer, connect_task, cmd_lock, faultVars>>
              /\ \A b \in AuxIds \ {a} : task'[b] = task[b]
      ]_vars

\* the tasks that have written a request and have not read its reply to
\* the end
Exchanging == {id \in TaskIds : task[id].pc = "wait_reply"}

\* C13: exchanges never interleave on the connection: at most one task, the
\* status loop or a command, is between the write of its request and the
\* end of the read of its reply, that task holds the lock, and no request
\* but its own stands unanswered on the stream.
C13_NoInterleaving ==
    /\ Cardinality(Exchanging) <= 1
    /\ \A id \in Exchanging : Holds(id)
    /\ Len(written) <= 1
    /\ \A id \in Exchanging : written \in {<<>>, <<task[id].cmd>>}

\* C13: the status loop waits for the reply to its request while two
\* commands wait for the lock
C13_Witness ==
    \E l \in LoopIds :
       /\ task[l].pc = "wait_reply"
       /\ written = <<task[l].cmd>>
       /\ \A t \in CmdIds : task[t].pc = "wait_lock"

\* C14: when a command handler has done its exchange and goes on to
\* cancel_status_sleep while the status loop is in its sleep, the sleep is
\* cancelled.
C14_CommandCancelsSleep ==
    [][\A id \in CmdIds : \A l \in LoopIds :
          (/\ Succeeds(id)
           /\ status_task = l
           /\ task[l].pc = "sleep") => task'[l].pc = "woken"]_vars

\* bit b (1, 2, 4, ...) of the move code mc
Flag(mc, b) == (mc \div b) % 2 = 1

\* azimuthInPosition by its definition, for the decoded status s and the
\* commanded azimuth state azCmd
TableAzInPosition(s, azCmd) ==
    /\ ~Flag(s.move_code, 1)
    /\ ~Flag(s.move_code, 2)
    /\ azCmd.commandedState = "GoToPosition"
    /\ LET d == (s.az_pos - azCmd.azimuth[1]) % 3600000
           wrapped == IF d > 1800000 THEN d - 3600000 ELSE d
       IN 0 - 2000 < wrapped /\ wrapped < 2000

\* a door in position by its definition
TableDoorInPosition(closing, opening, commandedState, pct) ==
    /\ ~closing
    /\ ~opening
    /\ \/ commandedState = "Opened" /\ pct = 100
       \/ commandedState = "Closed" /\ pct = 0

\* shutterInPosition by its definition
TableShutterInPosition(s, dropoutCmd, mainCmd) ==
    /\ TableDoorInPosition(Flag(s.move_code, 4), Flag(s.move_code, 8),
                           mainCmd.commandedState, s.main_door_pct)
    /\ TableDoorInPosition(Flag(s.move_code, 16), Flag(s.move_code, 32),
                           dropoutCmd.commandedState, s.dropout_door_pct)

\* the published in-position flags are those of the definition, for the
\* decoded status s and the commanded states cs
InPositionAsDefined(s, cs) ==
    /\ evt_azimuthInPosition.inPosition = TableAzInPosition(s, cs.az)
    /\ evt_shutterInPosition.inPosition
          = TableShutterInPosition(s, cs.dropout, cs.main)
    /\ evt_allAxesInPosition.inPosition
          = (TableAzInPosition(s, cs.az)
             /\ TableShutterInPosition(s, cs.dropout, cs.main))

\* C15: the in-position flags that a status poll publishes are those of the
\* definition: azimuthInPosition iff neither azimuth motion flag is set, the
\* azimuth is commanded GoToPosition and the wrapped difference between the
\* reported and the commanded azimuth is below 0.2 deg; a door is in position
\* iff neither of its flags is set and it is commanded Opened at 100 percent
\* or Closed at 0 percent; shutterInPosition iff both doors are in position;
\* allAxesInPosition iff azimuthInPosition and shutterInPosition.
C15_InPositionFlags ==
    short_status # NoStatus => InPositionAsDefined(short_status[1], Commanded)

\* C15: the azimuth is reported 0.1999 deg below the commanded 0 deg, across
\* the wrap, and the doors are reported where they are commanded: all axes
\* are in position
C15_Witness ==
    /\ short_status # NoStatus
    /\ short_status[1].az_pos = 3598001
    /\ evt_azimuthCommandedState.azimuth = <<0>>
    /\ evt_mainDoorCommandedState.commandedState = "Opened"
    /\ evt_dropoutDoorCommandedState.commandedState = "Closed"
    /\ evt_allAxesInPosition.inPosition

\* the azimuth state by its definition
TableAzState(mc) ==
    IF Flag(mc, 1) THEN "MovingCW"
    ELSE IF Flag(mc, 2) THEN "MovingCCW"
    ELSE "NotInMotion"

\* the door state by its definition
TableDoorState(pct, closing, opening) ==
    IF ~closing /\ ~opening
    THEN IF pct = 0 THEN "Closed" ELSE IF pct = 100 THEN "Opened"
         ELSE "PartiallyOpened"
    ELSE IF closing THEN "Closing"
    ELSE "Opening"

\* C16: whenever a status has been published, the published axis states and
\* in-position flags are the functions of that status and of the commanded
\* states as they are now; no flag is stale after a command has changed a
\* commanded state.
C16_NoStaleDerivedState ==
    short_status # NoStatus =>
       LET s == short_status[1]
       IN /\ evt_azimuthState.state = TableAzState(s.move_code)
          /\ evt_mainDoorState.state
                = TableDoorState(s.main_door_pct, Flag(s.move_code, 4),
                                 Flag(s.move_code, 8))
          /\ evt_dropoutDoorState.state
                = TableDoorState(s.dropout_door_pct, Flag(s.move_code, 16),
                                 Flag(s.move_code, 32))
          /\ InPositionAsDefined(s, Commanded)

\* C16: closeShutter has been done while both doors are published Opened
\* and the shutter in position: the doors are commanded Closed and the
\* shutter is still published in position
C16_Witness ==
    /\ short_status # NoStatus
    /\ ack.kind = "closeShutter"
    /\ ack.result = "Complete"
    /\ evt_mainDoorState.state = "Opened"
    /\ evt_dropoutDoorState.state = "Opened"
    /\ evt_mainDoorCommandedState.commandedState = "Closed"
    /\ evt_dropoutDoorCommandedState.commandedState = "Closed"
    /\ evt_shutterInPosition.inPosition

\* the part of C16 that holds: the published axis states are those of the
\* last status
AxisStatesOfLastStatus ==
    short_status # NoStatus =>
       LET s == short_status[1]
       IN /\ evt_azimuthState.state = TableAzState(s.move_code)
          /\ evt_mainDoorState.state
                = TableDoorState(s.main_door_pct, Flag(s.move_code, 4),
                                 Flag(s.move_code, 8))
          /\ evt_dropoutDoorState.state
                = TableDoorState(s.dropout_door_pct, Flag(s.move_code, 16),
                                 Flag(s.move_code, 32))

\* C17: the published door states are, with neither flag of the door set,
\* Closed at 0 percent, Opened at 100 percent and PartiallyOpened otherwise;
\* Closing when the closing flag is set, whatever the percentage; Opening
\* when only the opening flag is set.  The main door reads the main door
\* flags and the dropout door the dropout door flags: the door state does
\* not depend on the flags or the percentage of the other door.
C17_DoorState ==
    short_status # NoStatus =>
       LET s == short_status[1]
           mc == s.move_code
       IN /\ evt_mainDoorState.state =
                (CASE Flag(mc, 4) -> "Closing"
                   [] ~Flag(mc, 4) /\ Flag(mc, 8) -> "Opening"
                   [] ~Flag(mc, 4) /\ ~Flag(mc, 8) /\ s.main_door_pct = 0 -> "Closed"
                   [] ~Flag(mc, 4) /\ ~Flag(mc, 8) /\ s.main_door_pct = 100 -> "Opened"
                   [] OTHER -> "PartiallyOpened")
          /\ evt_dropoutDoorState.state =
                (CASE Flag(mc, 16) -> "Closing"
                   [] ~Flag(mc, 16) /\ Flag(mc, 32) -> "Opening"
                   [] ~Flag(mc, 16) /\ ~Flag(mc, 32) /\ s.dropout_door_pct = 0 -> "Closed"
                   [] ~Flag(mc, 16) /\ ~Flag(mc, 32) /\ s.dropout_door_pct = 100 -> "Opened"
                   [] OTHER -> "PartiallyOpened")

\* C17: the main door closes at 55 percent while the dropout door, halted
\* at 100 percent, is published Opened
C17_Witness ==
    /\ short_status # NoStatus
    /\ short_status[1].move_code = 4
    /\ short_status[1].main_door_pct = 55
    /\ evt_mainDoorState.state = "Closing"
    /\ evt_dropoutDoorState.state = "Opened"

\* the door states
ShutterDoorStates == {"Closed", "Opened", "PartiallyOpened", "Closing", "Opening"}

\* C18: the derivation of the door state is total: for every move code,
\* those with both flags of a door set included, and every percentage, each
\* door is published in one of the five door states, and the failure to
\* parse the door state does not occur.
C18_DoorStateTotal ==
    short_status # NoStatus =>
       /\ evt_mainDoorState.state \in ShutterDoorStates
       /\ evt_dropoutDoorState.state \in ShutterDoorStates
       /\ evt_mainDoorState.state # "RuntimeError"
       /\ evt_dropoutDoorState.state # "RuntimeError"

\* C18: a status with both flags of both doors set has been handled
C18_Witness ==
    /\ short_status # NoStatus
    /\ short_status[1].move_code = 4 + 8 + 16 + 32
    /\ evt_mainDoorState.state = "Closing"
    /\ evt_dropoutDoorState.state = "Closing"

\* C19: the published azimuth state is MovingCW whenever AzPositive is set,
\* with or without AzNegative, MovingCCW when only AzNegative is set and
\* NotInMotion otherwise, whatever the Homing bit is; the published homing
\* flag is the Homing bit.
C19_AzimuthState ==
    short_status # NoStatus =>
       LET mc == short_status[1].move_code
       IN /\ Flag(mc, 1) => evt_azimuthState.state = "MovingCW"
          /\ (~Flag(mc, 1) /\ Flag(mc, 2)) => evt_azimuthState.state = "MovingCCW"
          /\ (~Flag(mc, 1) /\ ~Flag(mc, 2)) => evt_azimuthState.state = "NotInMotion"
          /\ evt_azimuthState.homing = Flag(mc, 64)

\* C19: AzPositive, AzNegative and Homing are set: MovingCW, homing
C19_Witness ==
    /\ short_status # NoStatus
    /\ short_status[1].move_code = 1 + 2 + 64
    /\ evt_azimuthState = [state |-> "MovingCW", homing |-> TRUE]

\* the step handles, in task id, a status reply with the expected number of
\* lines
StatusHandled(id) ==
    /\ task[id].cmd \in {<<"?">>, <<"+">>}
    /\ ReplyRead(id, TableLines(task[id].cmd))

\* the step changes a commanded state at the start or at the end of a
\* command that has passed its checks
AcceptedCommandStep ==
    \/ Issued /\ IssuedCmd.result # "ExpectedError"
    \/ \E id \in CmdIds : Ends(id) /\ ack'.result = "Complete"

\* C20: after start the three commanded states are Unknown, and they stay
\* so until a command is accepted.  A status poll made while the azimuth is
\* commanded Unknown, Stop or Home publishes azimuthInPosition false, and
\* one made while a door is commanded Unknown or Stop publishes
\* shutterInPosition false, also when the azimuth is halted and both doors
\* are reported closed; allAxesInPosition is false in both cases.
C20_UnknownNotInPosition ==
    /\ CommandedStates(Commanded) = <<"Unknown", "Unknown", "Unknown">>
    /\ [][/\ (/\ CommandedStates(Commanded) = <<"Unknown", "Unknown", "Unknown">>
              /\ CommandedStates(CommandedNext) # CommandedStates(Commanded))
                 => AcceptedCommandStep
          /\ \A id \in TaskIds : StatusHandled(id) =>
                /\ evt_azimuthCommandedState.commandedState
                      \in {"Unknown", "Stop", "Home"}
                   => /\ ~evt_azimuthInPosition'.inPosition
                      /\ ~evt_allAxesInPosition'.inPosition
                /\ (\/ evt_mainDoorCommandedState.commandedState
                          \in {"Unknown", "Stop"}
                    \/ evt_dropoutDoorCommandedState.commandedState
                          \in {"Unknown", "Stop"})
                   => /\ ~evt_shutterInPosition'.inPosition
                      /\ ~evt_allAxesInPosition'.inPosition
         ]_vars

\* C20: no command has been issued, the status loop has published a status
\* with the azimuth halted and both doors closed, and neither the azimuth
\* nor the shutter is published in position
C20_Witness ==
    /\ started = 0
    /\ short_status = << [az_pos |-> 0, main_door_pct |-> 0,
                          dropout_door_pct |-> 0, move_code |-> 0] >>
    /\ CommandedStates(Commanded) = <<"Unknown", "Unknown", "Unknown">>
    /\ evt_mainDoorState.state = "Closed"
    /\ evt_dropoutDoorState.state = "Closed"
    /\ evt_azimuthState.state = "NotInMotion"
    /\ ~evt_azimuthInPosition.inPosition
    /\ ~evt_shutterInPosition.inPosition

\* ------------------------------------------------------------------ C21
\* the status request of poll cycle k (counted from 1) of a status_loop
\* whose cycles raise nothing
CycleWire(k) == IF (k - 1) % short_per_full = 0 THEN <<"+">> ELSE <<"?">>

ReadFails(id) ==
    /\ task[id].pc = "wait_reply"
    /\ \/ task'[id].rd = ReadRaised
       \/ Ends(id) /\ ack'.rd = ReadRaised

\* the step calls disconnect() in task id
DisconnectCalled(id) ==
    \/ task[id].kind = "disconnect" /\ task[id].pc = "start" /\ task'[id].pc # "start"
    \/ ReadFails(id)

\* task id is inside disconnect(), at its wait for status_task
InDisconnect(tk, id) == tk[id].pc \in {"await_status", "cancel_wait"}

\* the step is one in which the disconnect() of task id returns or raises
DisconnectEnds(id) ==
    /\ DisconnectCalled(id) \/ InDisconnect(task, id)
    /\ ~InDisconnect(task', id)

\* the step is one in which the wait for status_task of the disconnect() of
\* task id times out: status_task is cancelled, and disconnect() raises
\* TimeoutError, or CancelledError when it runs in status_task itself
TimesOut(id) ==
    /\ task[id].pc = "await_status"
    /\ \/ task'[id].pc = "cancel_wait"
       \/ task[id].await = id /\ task'[id].pc # "await_status"

\* the step is one of task id inside disconnect(), from its call to its end
DisconnectStep(id) ==
    \/ DisconnectCalled(id)
    \/ InDisconnect(task, id) /\ task'[id] # task[id]

\* C22: disconnect() always ends disconnected and is idempotent: its call
\* leaves neither a reader nor a writer, whether it goes on, returns or
\* raises, and nothing it does later stores one; and a disconnect() called
\* while the CSC is disconnected cancels nothing and raises nothing.
C22_DisconnectIdempotent ==
    [][\A id \in TaskIds :
          /\ DisconnectCalled(id) => ~connected'
          /\ (DisconnectStep(id) /\ ~DisconnectCalled(id))
                 => UNCHANGED <<reader, writer>>
          /\ (task[id].pc = "await_status" /\ ~task[id].was_connected)
                 => ~TimesOut(id)]_vars

\* the part of C22 that holds: the call of disconnect() leaves neither a
\* reader nor a writer, however it ends, and nothing it does later stores
\* one; and a disconnect() that is called while the CSC is disconnected
\* and status_task has ended, or was never started, raises nothing: it
\* returns at once, or waits for a task that has ended.
DisconnectEndsDisconnected ==
    [][\A id \in TaskIds :
          /\ DisconnectCalled(id) => ~connected'
          /\ (DisconnectStep(id) /\ ~DisconnectCalled(id))
                 => UNCHANGED <<reader, writer>>
          /\ (DisconnectCalled(id) /\ ~connected
                /\ (status_task = NoTask \/ Finished(status_task)))
                 => \/ ~InDisconnect(task', id)
                    \/ /\ task'[id].pc = "await_status"
                       /\ task'[task'[id].await].pc \in {"idle", "done", "cancelled"}]_vars

\* ------------------------------------------------------------------ C23
\* the extreme a door command sends the dropout door and the main door to,
\* None for a door it leaves alone
DoorTargets(c) ==
    CASE c.kind = "openShutter" -> <<"Opened", "Opened">>
      [] c.kind = "closeShutter" -> <<"Closed", "Closed">>
      [] c.kind = "moveShutterDropoutDoor" ->
            <<IF c.open THEN "Opened" ELSE "Closed", None>>
      [] c.kind = "moveShutterMainDoor" ->
            <<None, IF c.open THEN "Opened" ELSE "Closed">>
      [] OTHER -> <<None, None>>

\* c is a door command whose target is reached: each door it moves is
\* commanded to, and reported at, the extreme c sends it to
TargetReached(c) ==
    LET target == DoorTargets(c)
    IN /\ target # <<None, None>>
       /\ target[1] # None =>
             /\ evt_dropoutDoorCommandedState.commandedState = target[1]
             /\ evt_dropoutDoorState.state = target[1]
       /\ target[2] # None =>
             /\ evt_mainDoorCommandedState.commandedState = target[2]
             /\ evt_mainDoorState.state = target[2]

\* the step issues, to an enabled and connected CSC, a door command whose
\* target is reached
Reissued ==
    /\ Issued
    /\ summary_state = "ENABLED"
    /\ connected
    /\ TargetReached(IssuedCmd)

\* the door precondition of a single-door command, by the command table:
\* the dropout door moves only while the main door is reported Opened, the
\* main door closes only while the dropout door is reported Closed or Opened
TableDoorPrecondition(c) ==
    /\ c.kind = "moveShutterDropoutDoor" => evt_mainDoorState.state = "Opened"
    /\ (c.kind = "moveShutterMainDoor" /\ ~c.open) =>
          evt_dropoutDoorState.state \in {"Closed", "Opened"}

\* C23 as stated: a door command issued again when its target is reached
\* (openShutter with both doors Opened, a single-door open or close of a
\* door at that extreme) is accepted, and neither its issue nor its end
\* changes a commanded state, a reported door state or an in-position
\* flag.
C23_ReissueAccepted ==
    [][/\ Reissued =>
            /\ IssuedCmd.result = "InProgress"
            /\ UNCHANGED <<commandedVars, statusVars>>
       /\ \A id \in CmdIds : (Succeeds(id) /\ TargetReached(ack')) =>
            UNCHANGED <<commandedVars, statusVars>>]_vars

\* C23 as amended: a door command issued again when its target is reached
\* is accepted whenever the door precondition of the command holds (none
\* for openShutter, closeShutter and the opening of the main door), and
\* refused with ExpectedError otherwise; either way neither its issue nor
\* its end changes a commanded state, a reported door state or an
\* in-position flag.
C23_ReissueIdempotent ==
    [][/\ Reissued =>
            /\ IssuedCmd.result =
                  IF TableDoorPrecondition(IssuedCmd)
                  THEN "InProgress" ELSE "ExpectedError"
            /\ UNCHANGED <<commandedVars, statusVars>>
       /\ \A id \in CmdIds : (Succeeds(id) /\ TargetReached(ack')) =>
            UNCHANGED <<commandedVars, statusVars>>]_vars

\* C23: after openShutter both doors are reported Opened, and
\* moveShutterDropoutDoor(open=True) has been accepted and has written
\* "DN" with everything still commanded and reported Opened
C23_Witness ==
    \E t \in CmdIds :
       /\ task[t].kind = "moveShutterDropoutDoor"
       /\ task[t].open
       /\ task[t].pc = "wait_reply"
       /\ written = << <<"DN">> >>
       /\ ack.kind = "openShutter"
       /\ ack.result = "Complete"
       /\ evt_dropoutDoorCommandedState.commandedState = "Opened"
       /\ evt_mainDoorCommandedState.commandedState = "Opened"
       /\ evt_dropoutDoorState.state = "Opened"
       /\ evt_mainDoorState.state = "Opened"

\* ------------------------------------------------------------------ C24
\* the step is one in which task id opens the streams or reads the welcome
\* message (connect), or writes a command or reads its reply (run_command)
UsesStreams(id) ==
    \/ task[id].pc \in {"opening", "banner", "wait_reply"} /\ task'[id] # task[id]
    \/ task[id].pc # "wait_reply" /\ task'[id].pc = "wait_reply"

\* the step is one in which task id calls disconnect() while there is a
\* writer, which it half-closes and closes
ClosesStreams(id) == DisconnectCalled(id) /\ writer # None

\* task id holds the lock during the step
HoldsDuring(id) == Holds(id) \/ (cmd_lock' # <<>> /\ Head(cmd_lock') = id)

\* C24: whatever is done to the streams is done by the task that holds the
\* command lock: the opening and the read of the welcome message in
\* connect, the write and the read of an exchange, and the half-close and
\* close in disconnect, also in a disconnect started by a summary state
\* change or by stop.
C24_StreamsUnderLock ==
    [][\A id \in TaskIds :
          (UsesStreams(id) \/ ClosesStreams(id)) => HoldsDuring(id)]_vars

\* the part of C24 that holds: connect and run_command use the streams
\* with the lock held, and so does the disconnect() that run_command calls
\* when its read has failed
ExchangesUnderLock ==
    [][\A id \in TaskIds :
          (UsesStreams(id) \/ (ClosesStreams(id) /\ task[id].kind # "disconnect"))
             => Holds(id) \/ (cmd_lock = <<>> /\ HoldsDuring(id))]_vars

\* ------------------------------------------------------------------ C25
\* the step is one in which the command callback of task t writes its wire
\* command
WritesWire(t) ==
    /\ task'[t].kind \in CommandKinds
    /\ task[t].pc # "wait_reply"
    /\ task'[t].pc = "wait_reply"

\* the commanded states after the step are those the command c leaves by
\* the command table: its update has been made
UpdateMade(c) ==
    /\ TableUpdate(c, CommandedStates(CommandedNext)) = CommandedStates(CommandedNext)
    /\ c.kind = "moveAzimuth" => evt_azimuthCommandedState'.azimuth = Deg(c.azimuth)

\* the commands of kinds follow checks, update, write, read, return: a
\* refused one changes no commanded state and writes nothing; when the
\* wire command of one is written, and no other command callback ran
\* meanwhile, the commanded state holds its update; and one that completes
\* has had the read of its reply ended
StepOrder(kinds) ==
    /\ (Issued /\ IssuedCmd.kind \in kinds /\ IssuedCmd.result = "ExpectedError") =>
          /\ UNCHANGED commandedVars
          /\ IssuedRejected
    /\ \A t \in CmdIds :
          /\ (/\ WritesWire(t)
              /\ task'[t].kind \in kinds
              /\ task'[t].over = {}
              /\ task'[t].seq = started') => UpdateMade(task'[t])
          /\ (Ends(t) /\ ack'.kind \in kinds /\ ack'.result = "Complete") =>
                /\ task[t].pc \in {"wait_reply", "await_status"}
                /\ ack'.sent = 1
                /\ ack'.rd # NoRead

\* C25: each of the seven commands checks its preconditions first, then
\* updates the commanded state, then writes its wire command, and returns
\* only once the reply has been read.
C25_StepOrder == [][StepOrder(CommandKinds)]_vars

\* the part of C25 that holds: the order is that of stopMotion,
\* homeAzimuth and the two single-door commands; for all seven the checks
\* come first and the return comes after the read
StepOrderOfFour ==
    [][/\ StepOrder({"stopMotion", "homeAzimuth", "moveShutterDropoutDoor",
                     "moveShutterMainDoor"})
       /\ (Issued /\ IssuedCmd.result = "ExpectedError") =>
             /\ UNCHANGED commandedVars
             /\ IssuedRejected
       /\ \A t \in CmdIds : (Ends(t) /\ ack'.result = "Complete") =>
             /\ task[t].pc \in {"wait_reply", "await_status"}
             /\ ack'.rd # NoRead]_vars

\* ------------------------------------------------------------------ C26
\* every command callback that was started has returned
AllReturned == \A t \in CmdIds : Finished(t)

\* C26: once all command callbacks have returned, the commanded state of
\* every axis is the update of the command whose wire command was written
\* last among those that affect the axis.  The lock serves the callbacks
\* in the order they started, so the command that started last, when it
\* did write and complete, wrote last: its update is in force on every
\* axis it affects, whatever ran concurrently.
C26_NewestIntent ==
    (/\ AllReturned
     /\ ack.seq = started
     /\ ack.kind \in CommandKinds
     /\ ack.sent = 1
     /\ ack.result = "Complete"
     /\ ack.rd = Lines(0))
        => TableUpdate(ack, CommandedStates(Commanded)) = CommandedStates(Commanded)

\* C26: homeAzimuth was issued while moveAzimuth was waiting for its
\* reply, "HM" was written after "MV", both have returned, and azimuth is
\* commanded GoToPosition
C26_Witness ==
    /\ AllReturned
    /\ ack.seq = started
    /\ ack.kind = "homeAzimuth"
    /\ ack.sent = 1
    /\ ack.result = "Complete"
    /\ ack.rd = Lines(0)
    /\ evt_azimuthCommandedState.commandedState = "GoToPosition"

MalformedReply(l) ==
    /\ task[l].kind = "status_loop"
    /\ task[l].pc = "wait_reply"
    /\ task'[l].rd = Lines(TableLines(task[l].cmd))
    /\ n_short_status' = n_short_status

\* the published position and axis states are those of construction, or
\* all of them are those of one decoded reply
SnapshotWhole ==
    IF short_status = NoStatus
    THEN /\ tel_position = [azimuthPosition |-> 0, mainDoorOpeningPercentage |-> 0,
                            dropoutDoorOpeningPercentage |-> 0]
         /\ evt_azimuthState.state = "Unset"
         /\ evt_mainDoorState.state = "Unset"
         /\ evt_dropoutDoorState.state = "Unset"
    ELSE LET s == short_status[1]
         IN /\ tel_position.azimuthPosition = s.az_pos
            /\ tel_position.mainDoorOpeningPercentage = s.main_door_pct
            /\ tel_position.dropoutDoorOpeningPercentage = s.dropout_door_pct
            /\ evt_azimuthState.homing = Flag(s.move_code, 64)
            /\ AxisStatesOfLastStatus

\* C28: a status reply with the right line count and a field that does
\* not decode publishes nothing (position, axis states and in-position
\* flags stay as they were), run_command gives up the lock, the streams
\* and the summary state stay as they are, and status_loop goes to its
\* sleep and on to its next cycle; and in every state the published
\* position and axis states are those of one reply, never a mix.
C28_StatusAllOrNothing ==
    [][/\ \A l \in LoopIds : MalformedReply(l) =>
            /\ UNCHANGED <<statusVars, reader, writer, faultVars>>
            /\ \A i \in 1 .. Len(cmd_lock') : cmd_lock'[i] # l
            /\ task'[l].pc = "sleep"
       /\ SnapshotWhole']_vars

\* C28: the first full status reply had 25 lines and did not decode:
\* nothing is published, the lock is free, the CSC is connected and
\* status_loop is in its sleep, about to request full status again
C28_Witness ==
    \E l \in LoopIds :
       /\ task[l].pc = "sleep"
       /\ task[l].cmd = <<"+">>
       /\ task[l].rd = Lines(FullLines)
       /\ n_short_status = 0
       /\ short_status = NoStatus
       /\ connected
       /\ cmd_lock = <<>>

\* ------------------------------------------------------------------ C29
\* the step is one in which status_loop l writes a status request
WritesStatus(l) ==
    /\ task[l].kind = "status_loop"
    /\ task[l].pc # "wait_reply"
    /\ task'[l].pc = "wait_reply"

\* C29, the part of it that a finite run refutes: once the read of a
\* reply has raised, in the exchange of status_loop itself or in that of a
\* command, the status_loop that was running writes no status request any
\* more.
C29_LoopEndsAfterFatalError ==
    [][\A l \in LoopIds : task[l].lost => ~WritesStatus(l)]_vars

\* C29: the read of status_loop's own reply has raised and the CSC was
\* disconnected; status_loop has written a status request since
C29_Witness ==
    \E l \in LoopIds :
       /\ task[l].lost
       /\ task[l].pc = "wait_reply"
       /\ connected

\* ------------------------------------------------------------------ C30
\* the step is one in which the disconnect() of task id gets to its wait for
\* status_task: the streams were forgotten and cancel_status_sleep was called
WaitsForLoop(id) ==
    /\ DisconnectCalled(id)
    /\ task'[id].pc = "await_status"

\* the step is one in which the disconnect() of task id returns from its
\* wait for status_task
ReturnsFromWait(id) ==
    /\ task[id].pc = "await_status"
    /\ task'[id].pc # "await_status"
    /\ ~TimesOut(id)

\* C30: disconnect() forgets the streams, then cancels the sleep of
\* status_loop, then waits for status_loop: a status_loop that sleeps when
\* disconnect() is called is woken by the cancellation, and disconnect()
\* does not return before status_loop has ended, unless its wait times out.
C30_DisconnectWakesLoop ==
    [][\A id \in TaskIds :
          /\ WaitsForLoop(id) =>
                /\ ~connected'
                /\ task'[id].await = status_task
                /\ task[status_task].pc = "sleep"
                      => task'[status_task].pc = "woken"
          /\ ReturnsFromWait(id) => Finished(task[id].await)]_vars

\* C30: a disconnect() waits for a status_loop that slept when it was called
\* and still sleeps
C30_Witness ==
    \E id \in TaskIds :
       /\ task[id].pc = "await_status"
       /\ task[id].await # id
       /\ task[task[id].await].pc = "sleep"

\* the part of C30 that holds: disconnect() forgets the streams before it
\* waits for status_task, its cancel_status_sleep finds no task to cancel
\* and leaves a sleeping status_loop asleep, and it does not return before
\* status_loop has ended, unless its wait times out.
DisconnectWaitsForLoop ==
    [][\A id \in TaskIds :
          /\ WaitsForLoop(id) =>
                /\ ~connected'
                /\ task'[id].await = status_task
                /\ status_sleep_task = NoTask
                /\ (status_task # id /\ task[status_task].pc = "sleep")
                      => task'[status_task].pc = "sleep"
          /\ ReturnsFromWait(id) => Finished(task[id].await)]_vars

\* ------------------------------------------------------------------ C31
\* the step is one of a command handler: a callback starts (its checks, the
\* commanded state it sets before run_command), or the run_command of a
\* callback ends and the handler goes on
HandlerStep == Issued \/ \E t \in CmdIds : Ends(t)

\* the step is one in which status_loop l hands a reply to handle_short_status
\* or handle_full_status
StatusReplyStep(l) ==
    /\ task[l].kind = "status_loop"
    /\ task[l].pc = "wait_reply"
    /\ task'[l].rd = Lines(expected_lines(task[l].cmd))

\* the step is one of status_loop, of connect() or of a disconnect() that
\* report_summary_state started
NoHandlerStep ==
    \/ \E l \in LoopIds : task[l].kind = "status_loop" /\ task'[l] # task[l]
                             /\ task[l].pc # "wait_lock" /\ task[l].pc # "sleep"
    \/ \E a \in AuxIds : task[a].kind \in {"connect", "disconnect"}
                            /\ task'[a].pc # task[a].pc

\* the published position, axis states and in-position flags
Published ==
    <<tel_position, evt_azimuthState, evt_dropoutDoorState, evt_mainDoorState,
      evt_azimuthInPosition, evt_shutterInPosition, evt_allAxesInPosition>>

\* C31: the commanded state of an axis changes only in a command handler:
\* the handling of a reply to a status request (handled, of the wrong line
\* count or malformed), connect() and disconnect() leave the three commanded
\* states as they are; and a command handler changes neither the published
\* position nor the axis states nor the in-position flags: these change
\* only when status_loop hands a reply to its handler.
C31_CommandedOnlyByHandlers ==
    [][/\ Commanded' # Commanded => HandlerStep
       /\ (NoHandlerStep /\ ~HandlerStep) => Commanded' = Commanded
       /\ HandlerStep => Published' = Published
       /\ Published' # Published => \E l \in LoopIds : StatusReplyStep(l)]_vars

\* C31: a status reply has been handled and has changed what is published, a
\* command has completed and left its commanded state, and the CSC has been
\* disconnected since
C31_Witness ==
    /\ short_status # NoStatus
    /\ evt_azimuthState.state # "Unset"
    /\ ack.result = "Complete"
    /\ CommandedStates(Commanded) # <<"Unknown", "Unknown", "Unknown">>
    /\ ~connected
    /\ status_task # NoTask

\* ------------------------------------------------------------------ C32
\* the step is one in which a status request or a command is written
Writes == Len(written') > Len(written)

\* the step ends a connect attempt with the welcome message read
ConnectSucceeds ==
    \E a \in AuxIds : task[a].kind = "connect" /\ task[a].pc = "banner"
                         /\ reader' # WelcomeUnread

\* connect() is between its call of open_connection and its end
ConnectIsPending == \E a \in AuxIds : ConnectPending(a)

\* C32: nothing is written to a connection before its welcome message has
\* been read and dropped: status_loop is started only by a connect attempt
\* that ends with the message read, and a command that is issued, with the
\* CSC enabled, while connect() waits for the streams or for the message,
\* waits for connect() to end: it neither writes nor ends in that step.
C32_NothingBeforeBanner ==
    [][/\ Writes => reader = StreamReader
       /\ LoopStarted => ConnectSucceeds
       /\ (Issued /\ ConnectIsPending /\ summary_state = "ENABLED"
              /\ IssuedCmd.result # "ExpectedError")
            => (IssuedCmd.result = "InProgress" /\ ~Writes)]_vars

\* C32: a connect attempt has ended without the welcome message read, and a
\* command has been written to its connection
C32_Witness ==
    /\ reader = WelcomeUnread
    /\ \A a \in AuxIds : ~ConnectPending(a)
    /\ \E t \in CmdIds : task[t].pc = "wait_reply"

\* the part of C32 that holds: status_loop is started only by a connect
\* attempt that ends with the welcome message read, and nothing is written
\* while connect() waits for the streams or for the message.
NothingWhileConnecting ==
    [][/\ LoopStarted => ConnectSucceeds
       /\ Writes => ~ConnectIsPending]_vars

\* ------------------------------------------------------------------ C33
\* the status_loop tasks that have not ended
RunningLoops == {l \in LoopIds : ~Finished(l)}

\* C33: at most one status_loop runs at any time: connect() starts a new one
\* only after the previous one has ended.
C33_OneStatusLoop == Cardinality(RunningLoops) <= 1

\* C33: a disconnect() still waits for a status_loop that sleeps, and the
\* status_loop of a later connect() waits for the reply to its status request
C33_Witness ==
    \E l, m \in LoopIds :
       /\ l # m
       /\ task[l].pc = "sleep"
       /\ \E a \in AuxIds : task[a].pc = "await_status" /\ task[a].await = l
       /\ status_task = m
       /\ task[m].pc = "wait_reply"

\* ------------------------------------------------------------------ C34
\* the step is one in which the run_command of task id, which has passed the
\* check of connected and waited for the lock, goes on with the lock
GetsLock(id) ==
    /\ task[id].kind \in CommandKinds \cup {"status_loop"}
    /\ task[id].pc = "wait_lock"
    /\ task'[id].pc # "wait_lock"

\* C34: no exchange is started on a connection that was torn down: a
\* run_command that has passed the check of connected and gets the lock
\* when the CSC is disconnected writes nothing, and its command fails with
\* the RuntimeError of "not connected".
C34_NoExchangeAfterDisconnect ==
    [][\A id \in TaskIds :
          (GetsLock(id) /\ ~connected) =>
              /\ ~Writes
              /\ task'[id].pc # "wait_reply"
              /\ task[id].kind \in CommandKinds =>
                    (Ends(id) /\ ack'.result = "RuntimeError")]_vars

\* C34: a command has the lock it waited for, and the CSC was disconnected
\* while it waited
C34_Witness ==
    \E t \in CmdIds :
       /\ task[t].pc = "wait_lock"
       /\ Holds(t)
       /\ ~connected

\* the part of C34 that holds: a run_command that gets the lock when the
\* CSC is disconnected writes nothing and ends; its command fails
WritesNothingAfterDisconnect ==
    [][\A id \in TaskIds :
          (GetsLock(id) /\ ~connected) =>
              /\ ~Writes
              /\ task'[id].pc # "wait_reply"
              /\ task[id].kind \in CommandKinds =>
                    (Ends(id) /\ ack'.result = "AttributeError")]_vars

\* ------------------------------------------------------------------ C35
\* task id waits for the reply of an exchange whose connection a disconnect()
\* started by report_summary_state has closed, or is in the disconnect() that
\* its run_command calls when the read of that reply has failed
ClosedUnder(id) ==
    /\ task[id].kind \in CommandKinds \cup {"status_loop"}
    /\ \/ task[id].pc = "wait_reply" /\ ~connected
       \/ InDisconnect(task, id) /\ ~task[id].was_connected

\* C35: a disconnect() that report_summary_state starts because the
\* connection is no longer wanted signals no fault: an exchange that waits
\* for its reply when the streams are closed ends without errorCode 2 being
\* put and without the summary state becoming FAULT.
C35_DisconnectIsNoFault ==
    [][\A id \in TaskIds :
          (ClosedUnder(id) /\ task'[id] # task[id]) =>
              /\ evt_errorCode' = evt_errorCode
              /\ summary_state' = summary_state]_vars

\* C35: the CSC went to STANDBY, the disconnect() that followed has closed
\* the streams, and a command still waits for its reply
C35_Witness ==
    /\ summary_state = "STANDBY"
    /\ evt_errorCode.errorCode = 0
    /\ \E t \in CmdIds : task[t].pc = "wait_reply" /\ ~connected

\* ------------------------------------------------------------------ C36
\* task id, inside disconnect(), waits for status_task l, which cannot end:
\* l is id itself, or l waits for the lock that id holds
CircularWait(id, l) ==
    \/ l = id
    \/ Holds(id) /\ task[l].pc = "wait_lock"

\* C36: disconnect() and status_loop never wait for each other: a task that
\* waits in disconnect() for status_task to end is not status_task itself
\* and does not hold the lock status_task waits for, so that the wait ends
\* when status_loop ends and not by its timeout.
C36_NoCircularWait ==
    \A id \in TaskIds :
       task[id].pc = "await_status" => ~CircularWait(id, task[id].await)

\* C36: a command whose read failed waits in disconnect(), with the lock,
\* for a status_loop that waits for the lock
C36_Witness ==
    \E t \in CmdIds :
       /\ task[t].pc = "await_status"
       /\ Holds(t)
       /\ task[task[t].await].pc = "wait_lock"

\* the waits of C36 that cannot be circular: a disconnect() that
\* report_summary_state starts holds no lock and is not status_task
DisconnectAloneNotCircular ==
    \A a \in AuxIds :
       task[a].pc = "await_status" => ~CircularWait(a, task[a].await)

\* ------------------------------------------------------------------ C37
\* C37: when a connect attempt ends with errorCode 1, the CSC is
\* disconnected as connect() returns: it has neither a reader nor a writer,
\* also when the streams were opened and only the read of the welcome
\* message failed.
C37_FailedConnectDisconnected ==
    [][\A a \in AuxIds :
          (ConnectFails(a) /\ evt_errorCode'.errorCode = ConnectErrorCode) =>
              /\ reader' = None
              /\ writer' = None
              /\ ~connected']_vars

\* C37: a connect attempt has ended with errorCode 1 at the welcome
\* message, and the CSC still has the streams
C37_Witness ==
    /\ ConnectFailed
    /\ ~ConnectIsPending
    /\ reader = WelcomeUnread
    /\ writer # None

\* the part of C37 that holds: a connect attempt that fails before the
\* streams are stored ends with errorCode 1 and stores neither a reader nor
\* a writer
FailedOpenStoresNothing ==
    [][\A a \in AuxIds :
          (ConnectFails(a) /\ task[a].pc = "opening") =>
              /\ evt_errorCode'.errorCode = ConnectErrorCode
              /\ UNCHANGED <<reader, writer>>]_vars

\* ------------------------------------------------------------------ C38
\* the step starts a command callback whose run_command raises RuntimeError
\* at once: the CSC is neither connected nor connecting
FailsNotConnected ==
    /\ Issued
    /\ IssuedCmd.result = "RuntimeError"

\* C38: a command that fails because the CSC is not connected, and not
\* connecting, writes no wire command and leaves the commanded states of
\* the three axes as they were before the call, whichever of the seven
\* commands it is.
C38_NotConnectedChangesNothing ==
    [][FailsNotConnected =>
          /\ ~Writes
          /\ IssuedCmd.sent = 0
          /\ Commanded' = Commanded]_vars

\* C38: stopMotion has failed with RuntimeError, nothing was written, and
\* the commanded states are Stop
C38_Witness ==
    /\ ack.kind = "stopMotion"
    /\ ack.result = "RuntimeError"
    /\ ack.sent = 0
    /\ CommandedStates(Commanded) = <<"Stop", "Stop", "Stop">>

\* the part of C38 that holds: no command that fails because the CSC is not
\* connected writes anything, and moveAzimuth, openShutter and closeShutter
\* leave the commanded states as they were
NotConnectedWritesNothing ==
    [][FailsNotConnected =>
          /\ ~Writes
          /\ IssuedCmd.sent = 0
          /\ IssuedCmd.kind \in {"moveAzimuth", "openShutter", "closeShutter"}
                => Commanded' = Commanded]_vars

\* ------------------------------------------------------------------ C39
\* the step ends the command callback of task t, and the read of its reply
\* raised, or the reply had not the expected number of lines
ExchangeFailed(t) ==
    /\ Ends(t)
    /\ ack'.sent > 0
    /\ \/ ack'.rd = ReadRaised
       \/ ack'.rd.lines >= 0 /\ ack'.rd.lines # TableLines(ack'.cmd)

\* C39: a command whose exchange ends with a failed read (timeout or end of
\* the stream) or with a reply of the wrong number of lines is not reported
\* complete and sets no commanded state: moveAzimuth leaves the commanded
\* azimuth state as it was when the reply to "MV" was not received.
C39_FailedExchangeNotComplete ==
    [][\A t \in CmdIds : ExchangeFailed(t) =>
          /\ ack'.result # "Complete"
          /\ Commanded' = Commanded]_vars

\* C39: the read of the reply to "MV" raised, moveAzimuth is reported
\* complete and the azimuth is commanded GoToPosition
C39_Witness ==
    /\ ack.kind = "moveAzimuth"
    /\ ack.rd = ReadRaised
    /\ ack.result = "Complete"
    /\ evt_azimuthCommandedState.commandedState = "GoToPosition"

\* the part of C39 that holds: a command whose run_command raises, as it
\* does when the disconnect() after a failed read raises, is not reported
\* complete and sets no commanded state as it ends
RaisedNotComplete ==
    [][\A t \in CmdIds : (Ends(t) /\ ack'.sent > 0 /\ ack'.result # "Complete")
          => Commanded' = Commanded]_vars

\* ------------------------------------------------------------------ C40
\* homeAzimuth has been accepted and no status reply has been handled since
\* "HM" was written: homeAzimuth waits for its reply with the lock, or it
\* was the last command to end, complete, and no status reply was ever
\* handled
HomingNotReported ==
    \/ \E u \in CmdIds : task[u].kind = "homeAzimuth" /\ task[u].pc = "wait_reply"
    \/ /\ ack.kind = "homeAzimuth"
       /\ ack.result = "Complete"
       /\ ack.rd = Lines(0)
       /\ evt_azimuthCommandedState.commandedState = "Home"
       /\ short_status = NoStatus

\* the step starts moveAzimuth or homeAzimuth
IssuedAzimuth == Issued /\ IssuedCmd.kind \in {"moveAzimuth", "homeAzimuth"}

\* C40: from the acceptance of homeAzimuth until a status reply reports the
\* end of the homing, every moveAzimuth and every further homeAzimuth is
\* refused and writes nothing: while the homing flag is reported, and also
\* before the first status reply that reports it.
C40_HomingExcludesAzimuth ==
    [][(IssuedAzimuth /\ (evt_azimuthState.homing \/ HomingNotReported))
          => IssuedRejected]_vars

\* C40: homeAzimuth is complete, no status reply was handled, and
\* moveAzimuth has written its wire command
C40_Witness ==
    /\ ack.kind = "homeAzimuth"
    /\ ack.result = "Complete"
    /\ short_status = NoStatus
    /\ \E t \in CmdIds : /\ task[t].kind = "moveAzimuth"
                         /\ task[t].pc = "wait_reply"
                         /\ task[t].seq = ack.seq + 1
====
